---- MODULE Spec2Model ----
(***************************************************************************)
(* A model of Composer::MessageComposer (src/Imap/Model/MessageComposer.cpp *)
(* as of the revision starting at line 645 of that file): the attachment   *)
(* list and its drag-and-drop decoders, and the serialization of the       *)
(* composed message as a raw byte stream or as CATENATE fragments; and of   *)
(* the notification of Gui::ComposerTextEdit (src/Gui/ComposerTextEdit.cpp) *)
(* with the timer that clears it.                                          *)
(*                                                                         *)
(* Byte streams are sequences of tokens [lit, raw]: a literal piece of     *)
(* text followed by raw payload bytes.  A QDataStream is a sequence of     *)
(* 32-bit words; a QString or a QByteArray is its length word followed by  *)
(* one word per character, a QList<uint> its count followed by the items.  *)
(***************************************************************************)
EXTENDS Integers, Sequences, FiniteSets, TLC

VARIABLES
    m_model,                \* Imap::Mailbox::Model*, Null for a composer without one
    m_attachments,          \* QList<AttachmentItem*>
    m_shouldPreload,        \* bool
    m_forwarding,           \* QPersistentModelIndex of the forwarded message
    m_from,                 \* Imap::Message::MailAddress
    m_recipients,           \* QList<QPair<RecipientKind, MailAddress>>
    m_subject,              \* QString
    m_organization,         \* QString
    m_text,                 \* QString, as its UTF-8 bytes
    m_timestamp,            \* QDateTime, in seconds since the epoch
    m_inReplyTo,            \* QList<QByteArray>
    m_references,           \* QList<QByteArray>
    m_reportTrojitaVersions,\* bool
    m_messageId,            \* mutable QByteArray, Null until generated
    m_mimeBoundary,         \* mutable QByteArray, Null until generated
    op,                     \* the most recent call and a summary of its input
    ret,                    \* what that call returned (or that it threw)
    events,                 \* the model/view notifications that call emitted
    target,                 \* what asRawMessage wrote to its QIODevice
    catenate,               \* the QList<CatenatePair> asCatenateData filled
    errorMessage,           \* *errorMessage after a serialization call
    m_notification,         \* ComposerTextEdit: QString, the notification shown
    m_notificationTimer,    \* ComposerTextEdit: the single-shot QTimer
    now                     \* the clock the timer runs on

composerVars == <<m_model, m_attachments, m_shouldPreload, m_forwarding, m_from, m_recipients,
                  m_subject, m_organization, m_text, m_timestamp, m_inReplyTo, m_references,
                  m_reportTrojitaVersions, m_messageId, m_mimeBoundary>>
callVars == <<op, ret, events, target, catenate, errorMessage>>
editVars == <<m_notification, m_notificationTimer, now>>
vars == <<composerVars, callVars, editVars>>

metaVars == <<m_from, m_recipients, m_subject, m_organization, m_text, m_timestamp,
              m_inReplyTo, m_references, m_reportTrojitaVersions>>
tokenVars == <<m_messageId, m_mimeBoundary>>

----------------------------------------------------------------------------
(* Bounds of the model. *)

MaxAttachments == 2     \* longest attachment list the composer is driven to
MaxBodyLen == 120       \* longest file body that is encoded
MaxTime == 4            \* how far the clock of the notification timer runs

----------------------------------------------------------------------------
(* Small helpers over sequences. *)

Null == "Null"

(* The one Imap::Mailbox::Model there is (its mailboxes are below). *)
ImapModel == "Model"

Range(s) == {s[i] : i \in 1..Len(s)}

RECURSIVE ConcatAll(_)
ConcatAll(ss) == IF ss = <<>> THEN <<>> ELSE Head(ss) \o ConcatAll(Tail(ss))

RemoveAt(s, i) == SubSeq(s, 1, i - 1) \o SubSeq(s, i + 1, Len(s))

----------------------------------------------------------------------------
(* The world outside the composer: the file system and the IMAP model.     *)
(* Strings that travel through a QDataStream are sequences of character    *)
(* codes.                                                                  *)

PathReadable == <<97>>          \* "a": a file that exists and is readable
PathUnreadable == <<122>>       \* "z": no such file
MailboxInbox == <<73>>          \* "I": a mailbox the model knows
MailboxUnknown == <<88>>        \* "X": findMailboxByName returns 0
PartPath == <<49>>              \* "1": a part path

(* The files "f<n>": readable, with a body of n bytes. *)
BodyPath(n) == <<102, n>>
BodyFiles == {BodyPath(n) : n \in 0..MaxBodyLen}

ReadableFiles == {PathReadable} \cup BodyFiles
Mailboxes == {MailboxInbox}
LiveUids == {1, 2}              \* messages the mailbox still holds
GoneUids == {3}                 \* messages that have been expunged

(* Model::findMailboxByName *)
findMailboxByName(mailbox) == mailbox \in Mailboxes

(* Model::findMessagesByUids, as used by the attachment constructors *)
MessageExists(mailbox, uid) == findMailboxByName(mailbox) /\ uid \in LiveUids

----------------------------------------------------------------------------
(* AttachmentItem and its three subclasses (Composer/ComposerAttachments). *)

ATTACHMENT_IMAP_MESSAGE == 0
ATTACHMENT_IMAP_PART == 1
ATTACHMENT_FILE == 2

FileAttachmentItem(fileName) ==
    [kind |-> ATTACHMENT_FILE, fileName |-> fileName, mailbox |-> <<>>,
     uidValidity |-> 0, uid |-> 0, trojitaPath |-> <<>>,
     cdn |-> "CDN_ATTACHMENT", fetched |-> FALSE, gone |-> FALSE]

(* The two IMAP constructors throw Imap::UnknownMessageIndex when the      *)
(* message is not in the mailbox: ImapItemThrows says when.                *)
ImapItemThrows(mailbox, uid) == ~MessageExists(mailbox, uid)

ImapMessageAttachmentItem(mailbox, uidValidity, uid) ==
    [kind |-> ATTACHMENT_IMAP_MESSAGE, fileName |-> <<>>, mailbox |-> mailbox,
     uidValidity |-> uidValidity, uid |-> uid, trojitaPath |-> <<>>,
     cdn |-> "CDN_ATTACHMENT", fetched |-> FALSE, gone |-> FALSE]

ImapPartAttachmentItem(mailbox, uidValidity, uid, trojitaPath) ==
    [kind |-> ATTACHMENT_IMAP_PART, fileName |-> <<>>, mailbox |-> mailbox,
     uidValidity |-> uidValidity, uid |-> uid, trojitaPath |-> trojitaPath,
     cdn |-> "CDN_ATTACHMENT", fetched |-> FALSE, gone |-> FALSE]

setContentDispositionMode(a, mode) == [a EXCEPT !.cdn = mode]

(* AttachmentItem::isAvailableLocally: a file is available when it is      *)
(* readable, an IMAP item once its data has been fetched.                  *)
isAvailableLocally(a) ==
    IF a.kind = ATTACHMENT_FILE THEN a.fileName \in ReadableFiles ELSE a.fetched

----------------------------------------------------------------------------
(* Model/view notifications (QAbstractItemModel). *)

Ev(e, first, last) == [e |-> e, first |-> first, last |-> last]
beginInsertRows(first, last) == Ev("beginInsertRows", first, last)
endInsertRows == Ev("endInsertRows", 0, 0)
beginRemoveRows(first, last) == Ev("beginRemoveRows", first, last)
endRemoveRows == Ev("endRemoveRows", 0, 0)
preload(row) == Ev("preload", row, row)

(* The preload() calls of an insert of n items at row first. *)
Preloads(shouldPreload, first, n) ==
    IF shouldPreload THEN [i \in 1..n |-> preload(first + i - 1)] ELSE <<>>

----------------------------------------------------------------------------
(* QDataStream over a QByteArray, word by word.  A read past the end       *)
(* yields zero (or an empty container) and sets the status, which then     *)
(* sticks.                                                                 *)

Stream(bytes) == [buf |-> bytes, pos |-> 0, status |-> "Ok"]

atEnd(s) == s.pos >= Len(s.buf)

Avail(s) == Len(s.buf) - s.pos

PastEnd(s) == [s EXCEPT !.pos = Len(s.buf),
                        !.status = IF @ = "Ok" THEN "ReadPastEnd" ELSE @]

(* stream >> int / uint *)
RdInt(s) ==
    IF Avail(s) >= 1
    THEN [v |-> s.buf[s.pos + 1], s |-> [s EXCEPT !.pos = @ + 1]]
    ELSE [v |-> 0, s |-> PastEnd(s)]

(* stream >> QString / QByteArray: the length, then the characters; the    *)
(* length 0xFFFFFFFF (-1 as a word) stands for a null string.              *)
RdStr(s) ==
    LET n == RdInt(s) IN
    IF n.s.status # "Ok" THEN [v |-> <<>>, s |-> n.s]
    ELSE IF n.v = -1 \/ n.v = 0 THEN [v |-> <<>>, s |-> n.s]
    ELSE IF n.v < 0 \/ n.v > Avail(n.s) THEN [v |-> <<>>, s |-> PastEnd(n.s)]
    ELSE [v |-> SubSeq(n.s.buf, n.s.pos + 1, n.s.pos + n.v),
          s |-> [n.s EXCEPT !.pos = @ + n.v]]

(* stream >> QList<uint>: the count, then the items; the list is cleared   *)
(* when an item cannot be read.                                            *)
RdList(s) ==
    LET n == RdInt(s) IN
    IF n.s.status # "Ok" THEN [v |-> <<>>, s |-> n.s]
    ELSE IF n.v = 0 THEN [v |-> <<>>, s |-> n.s]
    ELSE IF n.v < 0 \/ n.v > Avail(n.s) THEN [v |-> <<>>, s |-> PastEnd(n.s)]
    ELSE [v |-> SubSeq(n.s.buf, n.s.pos + 1, n.s.pos + n.v),
          s |-> [n.s EXCEPT !.pos = @ + n.v]]

(* CHECK_STREAM_OK_AT_END: TRUE when the macro lets the decoder go on. *)
CheckStreamOkAtEnd_StatusOnly(s) == s.status = "Ok"

CHECK_STREAM_OK_AT_END(s) == atEnd(s) /\ s.status = "Ok"

----------------------------------------------------------------------------
(* The drag-and-drop decoders.  Each decoder is an operator from the       *)
(* payload to [ok, items]: ok is what the decoder returns, items what it   *)
(* has in hand to insert when ok.                                          *)

Fail == [ok |-> FALSE, items |-> <<>>]

(* validateDropImapMessage, after the caller has read the three fields *)
(* validateDropImapMessage without the test of uidValidity *)
validateDropImapMessage_AnyUidValidity(s, mailbox, uidValidity, uids) ==
    /\ s.status = "Ok"
    /\ findMailboxByName(mailbox)
    /\ Len(uids) >= 1

validateDropImapMessage(s, mailbox, uidValidity, uids) ==
    /\ s.status = "Ok"
    /\ findMailboxByName(mailbox)
    /\ Len(uids) >= 1
    /\ uidValidity # 0

(* stream >> mailbox >> uidValidity >> uids *)
RdImapMessage(s) ==
    LET m == RdStr(s)
        v == RdInt(m.s)
        u == RdList(v.s)
    IN [mailbox |-> m.v, uidValidity |-> v.v, uids |-> u.v, s |-> u.s]

(* validateDropImapPart: reads its own fields *)
RdImapPart(s) ==
    LET m == RdStr(s)
        v == RdInt(m.s)
        u == RdInt(v.s)
        t == RdStr(u.s)
    IN [mailbox |-> m.v, uidValidity |-> v.v, uid |-> u.v, trojitaPath |-> t.v, s |-> t.s]

(* validateDropImapPart without the test of the part path *)
validateDropImapPart_AnyPath(r) ==
    /\ r.s.status = "Ok"
    /\ findMailboxByName(r.mailbox)
    /\ ~(r.uidValidity = 0 \/ r.uid = 0)

validateDropImapPart(r) ==
    /\ r.s.status = "Ok"
    /\ findMailboxByName(r.mailbox)
    /\ ~(r.uidValidity = 0 \/ r.uid = 0 \/ r.trojitaPath = <<>>)

(* The loop of dropAttachmentList: num records still to read, items        *)
(* collected so far in the WillDeleteAll container.                        *)
RECURSIVE DropAttachmentListLoop(_, _, _)
DropAttachmentListLoop(s, num, items) ==
    IF num = 0 THEN [ok |-> TRUE, items |-> items, s |-> s]
    ELSE
      LET kind == RdInt(s) IN
      CASE kind.v = ATTACHMENT_IMAP_MESSAGE ->
             LET r == RdImapMessage(kind.s) IN
             IF ~validateDropImapMessage(r.s, r.mailbox, r.uidValidity, r.uids)
               THEN [ok |-> FALSE, items |-> <<>>, s |-> r.s]
             ELSE IF Len(r.uids) # 1
               THEN [ok |-> FALSE, items |-> <<>>, s |-> r.s]
             ELSE IF ImapItemThrows(r.mailbox, r.uids[1])
               THEN [ok |-> FALSE, items |-> <<>>, s |-> r.s]
             ELSE DropAttachmentListLoop(r.s, num - 1,
                      Append(items, ImapMessageAttachmentItem(r.mailbox, r.uidValidity, r.uids[1])))
        [] kind.v = ATTACHMENT_IMAP_PART ->
             LET r == RdImapPart(kind.s) IN
             IF ~validateDropImapPart(r)
               THEN [ok |-> FALSE, items |-> <<>>, s |-> r.s]
             ELSE IF ImapItemThrows(r.mailbox, r.uid)
               THEN [ok |-> FALSE, items |-> <<>>, s |-> r.s]
             ELSE DropAttachmentListLoop(r.s, num - 1,
                      Append(items, ImapPartAttachmentItem(r.mailbox, r.uidValidity, r.uid, r.trojitaPath)))
        [] kind.v = ATTACHMENT_FILE ->
             LET f == RdStr(kind.s) IN
             DropAttachmentListLoop(f.s, num - 1, Append(items, FileAttachmentItem(f.v)))
        [] OTHER -> [ok |-> FALSE, items |-> <<>>, s |-> kind.s]

(* dropAttachmentList up to the insertion *)
DropAttachmentListDecode(bytes) ==
    LET s == Stream(bytes) IN
    IF atEnd(s) THEN Fail
    ELSE LET num == RdInt(s) IN
      IF num.s.status # "Ok" THEN Fail
      ELSE IF num.v < 0 THEN Fail
      ELSE LET r == DropAttachmentListLoop(num.s, num.v, <<>>) IN
        IF ~r.ok THEN Fail
        ELSE IF ~CHECK_STREAM_OK_AT_END(r.s) THEN Fail
        ELSE [ok |-> TRUE, items |-> r.items]

(* The construction loop of dropImapMessage: one inline attachment per     *)
(* uid; UnknownMessageIndex abandons the whole batch.                      *)
RECURSIVE DropImapMessageItems_Partial(_, _, _, _)
DropImapMessageItems_Partial(mailbox, uidValidity, uids, items) ==
    IF uids = <<>> THEN [ok |-> TRUE, items |-> items]
    ELSE IF ImapItemThrows(mailbox, Head(uids)) THEN [ok |-> TRUE, items |-> items]
    ELSE DropImapMessageItems_Partial(mailbox, uidValidity, Tail(uids),
             Append(items, setContentDispositionMode(
                               ImapMessageAttachmentItem(mailbox, uidValidity, Head(uids)),
                               "CDN_INLINE")))

RECURSIVE DropImapMessageItems(_, _, _, _)
DropImapMessageItems(mailbox, uidValidity, uids, items) ==
    IF uids = <<>> THEN [ok |-> TRUE, items |-> items]
    ELSE IF ImapItemThrows(mailbox, Head(uids)) THEN Fail
    ELSE DropImapMessageItems(mailbox, uidValidity, Tail(uids),
             Append(items, setContentDispositionMode(
                               ImapMessageAttachmentItem(mailbox, uidValidity, Head(uids)),
                               "CDN_INLINE")))

(* dropImapMessage up to the insertion *)
DropImapMessageDecode(bytes) ==
    LET s == Stream(bytes) IN
    IF atEnd(s) THEN Fail
    ELSE LET r == RdImapMessage(s) IN
      IF ~validateDropImapMessage(r.s, r.mailbox, r.uidValidity, r.uids) THEN Fail
      ELSE IF ~CHECK_STREAM_OK_AT_END(r.s) THEN Fail
      ELSE DropImapMessageItems(r.mailbox, r.uidValidity, r.uids, <<>>)

(* dropImapPart up to the insertion *)
DropImapPartDecode(bytes) ==
    LET s == Stream(bytes) IN
    IF atEnd(s) THEN Fail
    ELSE LET r == RdImapPart(s) IN
      IF ~validateDropImapPart(r) THEN Fail
      ELSE IF ~CHECK_STREAM_OK_AT_END(r.s) THEN Fail
      ELSE IF ImapItemThrows(r.mailbox, r.uid) THEN Fail
      ELSE [ok |-> TRUE,
            items |-> <<ImapPartAttachmentItem(r.mailbox, r.uidValidity, r.uid, r.trojitaPath)>>]

----------------------------------------------------------------------------
(* The mutators of the attachment list.  Each is an operator from the      *)
(* composer's state and the call's arguments to what the call leaves       *)
(* behind: [ret, atts, events].  ret is "true", "false", "void", or the    *)
(* name of the exception that left the call.                               *)

Outcome(r, atts, evs) == [ret |-> r, atts |-> atts, events |-> evs]

(* The insertion that ends the three decoders: one contiguous range. *)
InsertDecoded(atts, shouldPreload, r, last) ==
    IF ~r.ok THEN Outcome("false", atts, <<>>)
    ELSE Outcome("true", atts \o r.items,
                 <<beginInsertRows(Len(atts), last)>>
                 \o Preloads(shouldPreload, Len(atts), Len(r.items))
                 \o <<endInsertRows>>)

dropAttachmentListInsert(atts, shouldPreload, r) ==
    InsertDecoded(atts, shouldPreload, r, Len(atts) + Len(r.items) - 1)

dropImapMessageInsert(atts, shouldPreload, r) ==
    InsertDecoded(atts, shouldPreload, r, Len(atts) + Len(r.items) - 1)

dropImapPartInsert(atts, shouldPreload, r) ==
    InsertDecoded(atts, shouldPreload, r, Len(atts))

(* The revision of addFileAttachment at line 620: no availability check. *)
addFileAttachmentCall_Unchecked(atts, shouldPreload, path) ==
    Outcome("true", Append(atts, FileAttachmentItem(path)),
            <<beginInsertRows(Len(atts), Len(atts)), endInsertRows>>)

addFileAttachmentCall(atts, shouldPreload, path) ==
    LET attachment == FileAttachmentItem(path) IN
    IF ~isAvailableLocally(attachment)
    THEN Outcome("false", atts, <<beginInsertRows(Len(atts), Len(atts))>>)
    ELSE Outcome("true", Append(atts, attachment),
                 <<beginInsertRows(Len(atts), Len(atts))>>
                 \o Preloads(shouldPreload, Len(atts), 1)
                 \o <<endInsertRows>>)

(* index is a row of the list model; any other index is not valid *)
(* removeAttachment taking the first item whatever the row *)
removeAttachmentCall_TakesFirst(atts, row) ==
    IF row < 0 \/ row >= Len(atts) THEN Outcome("void", atts, <<>>)
    ELSE Outcome("void", Tail(atts), <<beginRemoveRows(row, row), endRemoveRows>>)

removeAttachmentCall(atts, row) ==
    IF row < 0 \/ row >= Len(atts) THEN Outcome("void", atts, <<>>)
    ELSE Outcome("void", RemoveAt(atts, row + 1),
                 <<beginRemoveRows(row, row), endRemoveRows>>)

(* prepareForwarding in FORWARD_AS_ATTACHMENT mode; index names the message *)
prepareForwardingCall(atts, shouldPreload, index) ==
    IF ImapItemThrows(index.mailbox, index.uid)
    THEN Outcome("UnknownMessageIndex", atts, <<beginInsertRows(Len(atts), Len(atts))>>)
    ELSE Outcome("void",
                 Append(atts, setContentDispositionMode(
                            ImapMessageAttachmentItem(index.mailbox, index.uidValidity, index.uid),
                            "CDN_INLINE")),
                 <<beginInsertRows(Len(atts), Len(atts))>>
                 \o Preloads(shouldPreload, Len(atts), 1)
                 \o <<endInsertRows>>)

(* QMimeData as dropMimeData reads it: the formats it has, for each of the *)
(* three formats of Trojita its data (with what the decoder makes of it;   *)
(* the data of a format that is not there is empty), and its URLs.         *)
xTrojitaAttachmentList == "application/x-trojita-attachments-list"
xTrojitaMessageList == "application/x-trojita-message-list"
xTrojitaImapPart == "application/x-trojita-imap-part"

hasFormat(data, format) == format \in data.formats
hasUrls(data) == data.urls # <<>>

(* The revision of the URL loop at line 139: any local file satisfies the  *)
(* drop, attached or not.                                                  *)
RECURSIVE dropUrlsFrom_AnyLocalFile(_, _, _, _, _, _)
dropUrlsFrom_AnyLocalFile(atts, shouldPreload, urls, i, attached, evs) ==
    IF i > Len(urls) THEN Outcome(IF attached THEN "true" ELSE "false", atts, evs)
    ELSE IF urls[i].isLocalFile
    THEN LET r == addFileAttachmentCall(atts, shouldPreload, urls[i].path)
         IN dropUrlsFrom_AnyLocalFile(r.atts, shouldPreload, urls, i + 1, TRUE,
                                      evs \o r.events)
    ELSE dropUrlsFrom_AnyLocalFile(atts, shouldPreload, urls, i + 1, attached, evs)

(* The foreach over the URLs of dropMimeData, from URL i on *)
RECURSIVE dropUrlsFrom(_, _, _, _, _, _)
dropUrlsFrom(atts, shouldPreload, urls, i, attached, evs) ==
    IF i > Len(urls) THEN Outcome(IF attached THEN "true" ELSE "false", atts, evs)
    ELSE IF urls[i].isLocalFile
    THEN LET r == addFileAttachmentCall(atts, shouldPreload, urls[i].path)
         IN dropUrlsFrom(r.atts, shouldPreload, urls, i + 1, r.ret = "true" \/ attached,
                         evs \o r.events)
    ELSE dropUrlsFrom(atts, shouldPreload, urls, i + 1, attached, evs)

(* The dispatch with the URLs looked at before the formats of Trojita *)
dropMimeDataCall_UrlsFirst(atts, shouldPreload, model, data, action, column) ==
    IF action = "IgnoreAction" THEN Outcome("true", atts, <<>>)
    ELSE IF column > 0 THEN Outcome("false", atts, <<>>)
    ELSE IF model = Null THEN Outcome("false", atts, <<>>)
    ELSE IF hasUrls(data)
    THEN dropUrlsFrom(atts, shouldPreload, data.urls, 1, FALSE, <<>>)
    ELSE IF hasFormat(data, xTrojitaAttachmentList)
    THEN dropAttachmentListInsert(atts, shouldPreload, data.attachmentList.r)
    ELSE IF hasFormat(data, xTrojitaMessageList)
    THEN dropImapMessageInsert(atts, shouldPreload, data.messageList.r)
    ELSE IF hasFormat(data, xTrojitaImapPart)
    THEN dropImapPartInsert(atts, shouldPreload, data.imapPart.r)
    ELSE Outcome("false", atts, <<>>)

dropMimeDataCall(atts, shouldPreload, model, data, action, column) ==
    IF action = "IgnoreAction" THEN Outcome("true", atts, <<>>)
    ELSE IF column > 0 THEN Outcome("false", atts, <<>>)
    ELSE IF model = Null THEN Outcome("false", atts, <<>>)
    ELSE IF hasFormat(data, xTrojitaAttachmentList)
    THEN dropAttachmentListInsert(atts, shouldPreload, data.attachmentList.r)
    ELSE IF hasFormat(data, xTrojitaMessageList)
    THEN dropImapMessageInsert(atts, shouldPreload, data.messageList.r)
    ELSE IF hasFormat(data, xTrojitaImapPart)
    THEN dropImapPartInsert(atts, shouldPreload, data.imapPart.r)
    ELSE IF hasUrls(data)
    THEN dropUrlsFrom(atts, shouldPreload, data.urls, 1, FALSE, <<>>)
    ELSE Outcome("false", atts, <<>>)

(* isReadyForSerialization: the loop over the attachments, from row i on *)(* isReadyForSerialization: the loop over the attachments, from row i on *)
RECURSIVE isReadyFrom(_, _)
isReadyFrom(atts, i) ==
    IF i > Len(atts) THEN TRUE
    ELSE IF ~isAvailableLocally(atts[i]) THEN FALSE
    ELSE isReadyFrom(atts, i + 1)

(* The revision of isReadyForSerialization at line 388. *)
isReadyForSerialization_Always(atts) == TRUE

isReadyForSerialization(atts) == isReadyFrom(atts, 1)

----------------------------------------------------------------------------
(* The payloads that are dropped on the composer.  A payload is what       *)
(* AttachmentItem::asDroppableMimeData (or the mailbox view) wrote for a   *)
(* list of descriptors, as it is or damaged on the way; it carries what    *)
(* was done to it (shape) and the first descriptor that cannot be          *)
(* inserted (bad, pos).                                                    *)

DFile(fileName) ==
    [kind |-> ATTACHMENT_FILE, fileName |-> fileName, mailbox |-> <<>>,
     uidValidity |-> 0, uids |-> <<>>, uid |-> 0, trojitaPath |-> <<>>]
DMsg(mailbox, uidValidity, uids) ==
    [kind |-> ATTACHMENT_IMAP_MESSAGE, fileName |-> <<>>, mailbox |-> mailbox,
     uidValidity |-> uidValidity, uids |-> uids, uid |-> 0, trojitaPath |-> <<>>]
DPart(mailbox, uidValidity, uid, trojitaPath) ==
    [kind |-> ATTACHMENT_IMAP_PART, fileName |-> <<>>, mailbox |-> mailbox,
     uidValidity |-> uidValidity, uids |-> <<>>, uid |-> uid, trojitaPath |-> trojitaPath]

EncStr(str) == <<Len(str)>> \o str
EncList(l) == <<Len(l)>> \o l

(* The fields of one descriptor, in the order the decoders read them. *)
EncodeFields(d) ==
    CASE d.kind = ATTACHMENT_FILE -> EncStr(d.fileName)
      [] d.kind = ATTACHMENT_IMAP_MESSAGE ->
           EncStr(d.mailbox) \o <<d.uidValidity>> \o EncList(d.uids)
      [] d.kind = ATTACHMENT_IMAP_PART ->
           EncStr(d.mailbox) \o <<d.uidValidity, d.uid>> \o EncStr(d.trojitaPath)

(* MessageComposer::mimeData: the count, then kind and fields of each item *)
EncodeAttachmentList(ds) ==
    <<Len(ds)>> \o ConcatAll([i \in 1..Len(ds) |-> <<ds[i].kind>> \o EncodeFields(ds[i])])

(* What the decoders require of a descriptor before they construct it. *)
DescValid(d, single) ==
    CASE d.kind = ATTACHMENT_FILE -> TRUE
      [] d.kind = ATTACHMENT_IMAP_MESSAGE ->
           /\ d.mailbox \in Mailboxes
           /\ d.uidValidity # 0
           /\ IF single THEN Len(d.uids) = 1 ELSE Len(d.uids) >= 1
      [] d.kind = ATTACHMENT_IMAP_PART ->
           /\ d.mailbox \in Mailboxes
           /\ d.uidValidity # 0 /\ d.uid # 0 /\ d.trojitaPath # <<>>

(* The uids a descriptor refers to. *)
DescUids(d) ==
    CASE d.kind = ATTACHMENT_FILE -> <<>>
      [] d.kind = ATTACHMENT_IMAP_MESSAGE -> d.uids
      [] d.kind = ATTACHMENT_IMAP_PART -> <<d.uid>>

DescLive(d) == \A u \in Range(DescUids(d)) : u \in LiveUids

FirstBad(ds, single) ==
    LET badAt == {i \in 1..Len(ds) : ~DescValid(ds[i], single) \/ ~DescLive(ds[i])} IN
    IF badAt = {} THEN [bad |-> "none", pos |-> 0]
    ELSE LET i == CHOOSE j \in badAt : \A k \in badAt : j <= k IN
         [bad |-> IF ~DescValid(ds[i], single) THEN "invalid" ELSE "vanished", pos |-> i]

Payload(bytes, shape, fb) ==
    [bytes |-> bytes, shape |-> shape, bad |-> fb.bad, pos |-> fb.pos]

NoBad == [bad |-> "none", pos |-> 0]

(* Damage every decoder can meet: nothing at all, a cut after any word,    *)
(* a word too many.                                                        *)
Damaged(bytes) ==
    {Payload(<<>>, "empty", NoBad), Payload(bytes \o <<0>>, "trailing", NoBad)}
    \cup {Payload(SubSeq(bytes, 1, k), "truncated", NoBad) : k \in 1..(Len(bytes) - 1)}

(* Damage to an attachment list: a negative count, a count one more than   *)
(* the records present, a record of no known kind.                         *)
DamagedList(bytes) ==
    {Payload(<<-1>> \o Tail(bytes), "negativeCount", NoBad),
     Payload(<<Head(bytes) + 1>> \o Tail(bytes), "truncated", NoBad)}
    \cup (IF Len(bytes) >= 2
          THEN {Payload([bytes EXCEPT ![2] = 7], "unknownKind", NoBad)} ELSE {})

CleanRecords ==
    {DFile(PathReadable), DFile(PathUnreadable), DMsg(MailboxInbox, 1, <<1>>),
     DPart(MailboxInbox, 1, 2, PartPath)}

VanishedRecords == {DMsg(MailboxInbox, 1, <<3>>), DPart(MailboxInbox, 1, 3, PartPath)}

InvalidRecords ==
    {DMsg(MailboxUnknown, 1, <<1>>), DMsg(MailboxInbox, 0, <<1>>), DMsg(MailboxInbox, 1, <<>>),
     DMsg(MailboxInbox, 1, <<1, 2>>), DPart(MailboxUnknown, 1, 2, PartPath),
     DPart(MailboxInbox, 0, 2, PartPath), DPart(MailboxInbox, 1, 0, PartPath),
     DPart(MailboxInbox, 1, 2, <<>>)}

CleanLists ==
    {<<>>} \cup {<<a>> : a \in CleanRecords} \cup {<<a, b>> : a, b \in CleanRecords}

BadLists ==
    {<<b>> : b \in VanishedRecords \cup InvalidRecords}
    \cup {<<a, b>> : a \in {DFile(PathReadable), DMsg(MailboxInbox, 1, <<1>>)},
                     b \in VanishedRecords \cup {DMsg(MailboxUnknown, 1, <<1>>)}}
    \cup {<<b, a>> : a \in {DFile(PathReadable)}, b \in VanishedRecords}

DamagedLists ==
    {<<DFile(PathReadable)>>, <<DMsg(MailboxInbox, 1, <<1>>)>>,
     <<DPart(MailboxInbox, 1, 2, PartPath)>>,
     <<DFile(PathReadable), DMsg(MailboxInbox, 1, <<1>>)>>,
     <<DPart(MailboxInbox, 1, 2, PartPath), DFile(PathReadable)>>}

AttachmentListPayloads ==
    {Payload(EncodeAttachmentList(ds), "ok", FirstBad(ds, TRUE)) : ds \in CleanLists \cup BadLists}
    \cup UNION {Damaged(EncodeAttachmentList(ds)) \cup DamagedList(EncodeAttachmentList(ds)) :
                ds \in DamagedLists}

MessageListDescs ==
    {DMsg(m, v, us) : m \in {MailboxInbox}, v \in {1},
                      us \in {<<1>>, <<1, 2>>, <<3>>, <<1, 3>>, <<3, 1>>, <<>>}}
    \cup {DMsg(MailboxUnknown, 1, <<1>>), DMsg(MailboxInbox, 0, <<1>>)}

(* In a message list the batch is the uid list: pos is the first uid that  *)
(* is no longer in the mailbox.                                            *)
FirstBadUid(d) ==
    LET badAt == {i \in 1..Len(d.uids) : d.uids[i] \notin LiveUids} IN
    IF ~DescValid(d, FALSE) THEN [bad |-> "invalid", pos |-> 1]
    ELSE IF badAt = {} THEN NoBad
    ELSE [bad |-> "vanished", pos |-> CHOOSE j \in badAt : \A k \in badAt : j <= k]

MessageListPayloads ==
    {Payload(EncodeFields(d), "ok", FirstBadUid(d)) : d \in MessageListDescs}
    \cup UNION {Damaged(EncodeFields(d)) :
                d \in {DMsg(MailboxInbox, 1, <<1>>), DMsg(MailboxInbox, 1, <<1, 2>>)}}

ImapPartPayloads ==
    {Payload(EncodeFields(d), "ok", FirstBad(<<d>>, TRUE)) :
        d \in {r \in CleanRecords \cup VanishedRecords \cup InvalidRecords :
                 r.kind = ATTACHMENT_IMAP_PART}}
    \cup Damaged(EncodeFields(DPart(MailboxInbox, 1, 2, PartPath)))

Malformed == {"empty", "truncated", "trailing", "negativeCount", "unknownKind"}

(* Each payload with what its decoder makes of it.  Decoding reads the     *)
(* payload and the IMAP model only, so it is done once per payload.        *)
Decoded(p, r) ==
    [bytes |-> p.bytes, shape |-> p.shape, bad |-> p.bad, pos |-> p.pos, r |-> r]

DroppedAttachmentLists ==
    {Decoded(p, DropAttachmentListDecode(p.bytes)) : p \in AttachmentListPayloads}
DroppedMessageLists ==
    {Decoded(p, DropImapMessageDecode(p.bytes)) : p \in MessageListPayloads}
DroppedImapParts ==
    {Decoded(p, DropImapPartDecode(p.bytes)) : p \in ImapPartPayloads}

(* What is dragged onto the composer.  A QUrl is whether it names a local  *)
(* file, and its path.                                                     *)
Url(isLocalFile, path) == [isLocalFile |-> isLocalFile, path |-> path]

UrlLists ==
    {<<Url(TRUE, PathReadable)>>, <<Url(TRUE, PathUnreadable)>>, <<Url(FALSE, PathReadable)>>,
     <<Url(TRUE, PathReadable), Url(TRUE, PathUnreadable)>>,
     <<Url(TRUE, PathUnreadable), Url(TRUE, PathReadable)>>,
     <<Url(TRUE, PathReadable), Url(TRUE, PathReadable)>>,
     <<Url(FALSE, PathReadable), Url(TRUE, PathReadable)>>}

AttachmentListData(ds) ==
    Decoded(Payload(EncodeAttachmentList(ds), "ok", FirstBad(ds, TRUE)),
            DropAttachmentListDecode(EncodeAttachmentList(ds)))
MessageListData(d) ==
    Decoded(Payload(EncodeFields(d), "ok", FirstBadUid(d)), DropImapMessageDecode(EncodeFields(d)))
ImapPartData(d) ==
    Decoded(Payload(EncodeFields(d), "ok", FirstBad(<<d>>, TRUE)),
            DropImapPartDecode(EncodeFields(d)))

(* QMimeData::data of a format that is not there: an empty QByteArray. *)
NoAttachmentList == Decoded(Payload(<<>>, "empty", NoBad), DropAttachmentListDecode(<<>>))
NoMessageList == Decoded(Payload(<<>>, "empty", NoBad), DropImapMessageDecode(<<>>))
NoImapPart == Decoded(Payload(<<>>, "empty", NoBad), DropImapPartDecode(<<>>))

MimeData(al, ml, ip, urls) ==
    [formats |-> (IF al # NoAttachmentList THEN {xTrojitaAttachmentList} ELSE {})
                 \cup (IF ml # NoMessageList THEN {xTrojitaMessageList} ELSE {})
                 \cup (IF ip # NoImapPart THEN {xTrojitaImapPart} ELSE {}),
     attachmentList |-> al, messageList |-> ml, imapPart |-> ip, urls |-> urls]

DraggedAttachmentLists ==
    {AttachmentListData(ds) :
        ds \in {<<>>, <<DFile(PathReadable)>>, <<DFile(PathUnreadable)>>,
                <<DMsg(MailboxInbox, 1, <<1>>), DPart(MailboxInbox, 1, 2, PartPath)>>,
                <<DMsg(MailboxInbox, 1, <<3>>)>>}}
    \cup {Decoded(Payload(<<1>>, "truncated", NoBad), DropAttachmentListDecode(<<1>>))}
DraggedMessageLists ==
    {MessageListData(d) : d \in {DMsg(MailboxInbox, 1, <<1, 2>>), DMsg(MailboxInbox, 1, <<3>>)}}
DraggedImapParts ==
    {ImapPartData(d) : d \in {DPart(MailboxInbox, 1, 2, PartPath),
                              DPart(MailboxUnknown, 1, 2, PartPath)}}

DroppedMimeData ==
    {MimeData(NoAttachmentList, NoMessageList, NoImapPart, <<>>)}
    \cup {MimeData(al, NoMessageList, NoImapPart, <<>>) : al \in DraggedAttachmentLists}
    \cup {MimeData(NoAttachmentList, ml, NoImapPart, <<>>) : ml \in DraggedMessageLists}
    \cup {MimeData(NoAttachmentList, NoMessageList, ip, <<>>) : ip \in DraggedImapParts}
    \cup {MimeData(NoAttachmentList, NoMessageList, NoImapPart, urls) : urls \in UrlLists}
    \cup {MimeData(AttachmentListData(<<DMsg(MailboxInbox, 1, <<3>>)>>),
                   MessageListData(DMsg(MailboxInbox, 1, <<1, 2>>)), NoImapPart, <<>>),
          MimeData(AttachmentListData(<<DFile(PathReadable)>>),
                   MessageListData(DMsg(MailboxInbox, 1, <<1, 2>>)),
                   ImapPartData(DPart(MailboxInbox, 1, 2, PartPath)),
                   <<Url(TRUE, PathReadable), Url(TRUE, PathReadable)>>),
          MimeData(NoAttachmentList, MessageListData(DMsg(MailboxInbox, 1, <<1>>)),
                   ImapPartData(DPart(MailboxInbox, 1, 2, PartPath)), <<>>),
          MimeData(NoAttachmentList, MessageListData(DMsg(MailboxInbox, 1, <<3>>)),
                   NoImapPart, <<Url(TRUE, PathReadable)>>),
          MimeData(NoAttachmentList, NoMessageList,
                   ImapPartData(DPart(MailboxInbox, 1, 2, PartPath)),
                   <<Url(TRUE, PathReadable)>>),
          MimeData(NoAttachmentList, NoMessageList,
                   ImapPartData(DPart(MailboxUnknown, 1, 2, PartPath)),
                   <<Url(TRUE, PathReadable), Url(TRUE, PathReadable)>>)}

DropActions == {"IgnoreAction", "CopyAction"}
Columns == {-1, 0, 1}

----------------------------------------------------------------------------
(* The composer as a state machine: one action per public method.          *)

Call(name, shape, bad, pos, arg) ==
    [name |-> name, shape |-> shape, bad |-> bad, pos |-> pos, arg |-> arg]

SimpleCall(name, arg) == Call(name, "", "none", 0, arg)

NoIndex == [mailbox |-> <<>>, uidValidity |-> 0, uid |-> 0]

DefaultFrom == [mailbox |-> "a", host |-> "x.com"]

(* QTimer: whether it is running, and when it is due. *)
StoppedTimer == [active |-> FALSE, deadline |-> 0]

(* ComposerTextEdit::ComposerTextEdit: no notification, the timer made     *)
(* and not started.                                                        *)
InitTextEdit ==
    /\ m_notification = ""
    /\ m_notificationTimer = StoppedTimer
    /\ now = 0

Init ==
    /\ m_model = ImapModel
    /\ m_attachments = <<>>
    /\ m_shouldPreload = FALSE
    /\ m_forwarding = NoIndex
    /\ m_from = DefaultFrom
    /\ m_recipients = <<>>
    /\ m_subject = ""
    /\ m_organization = ""
    /\ m_text = <<>>
    /\ m_timestamp = 0
    /\ m_inReplyTo = <<>>
    /\ m_references = <<>>
    /\ m_reportTrojitaVersions = TRUE
    /\ m_messageId = Null
    /\ m_mimeBoundary = Null
    /\ op = SimpleCall("MessageComposer", <<>>)
    /\ ret = "void"
    /\ events = <<>>
    /\ target = <<>>
    /\ catenate = <<>>
    /\ errorMessage = <<>>
    /\ InitTextEdit

(* A call that does not serialize leaves no serialization output behind. *)
NoOutput == target' = <<>> /\ catenate' = <<>> /\ errorMessage' = <<>>

(* What is kept of a dropped payload: its words when it is well formed as  *)
(* a stream.                                                               *)
Dropped(p) == IF p.shape = "ok" THEN p.bytes ELSE <<>>

(* The effect of a mutator of the attachment list. *)
ListCall(call, r) ==
    /\ Len(r.atts) <= MaxAttachments
    /\ m_attachments' = r.atts
    /\ ret' = r.ret
    /\ events' = r.events
    /\ op' = call
    /\ NoOutput
    /\ UNCHANGED <<editVars, m_model, m_shouldPreload, metaVars, tokenVars>>

addFileAttachment(path) ==
    /\ ListCall(SimpleCall("addFileAttachment", path),
                addFileAttachmentCall(m_attachments, m_shouldPreload, path))
    /\ UNCHANGED m_forwarding

removeAttachment(row) ==
    /\ ListCall(SimpleCall("removeAttachment", <<row>>),
                removeAttachmentCall(m_attachments, row))
    /\ UNCHANGED m_forwarding

dropAttachmentList(p) ==
    /\ ListCall(Call("dropAttachmentList", p.shape, p.bad, p.pos, <<>>),
                dropAttachmentListInsert(m_attachments, m_shouldPreload, p.r))
    /\ UNCHANGED m_forwarding

dropImapMessage(p) ==
    /\ ListCall(Call("dropImapMessage", p.shape, p.bad, p.pos, Dropped(p)),
                dropImapMessageInsert(m_attachments, m_shouldPreload, p.r))
    /\ UNCHANGED m_forwarding

dropImapPart(p) ==
    /\ ListCall(Call("dropImapPart", p.shape, p.bad, p.pos, Dropped(p)),
                dropImapPartInsert(m_attachments, m_shouldPreload, p.r))
    /\ UNCHANGED m_forwarding

prepareForwarding(index) ==
    /\ m_forwarding' = index
    /\ ListCall(Call("prepareForwarding", "",
                     IF index.uid \in LiveUids THEN "none" ELSE "vanished", 1, <<>>),
                prepareForwardingCall(m_attachments, m_shouldPreload, index))

isReadyForSerializationQuery ==
    /\ ret' = IF isReadyForSerialization(m_attachments) THEN "true" ELSE "false"
    /\ op' = SimpleCall("isReadyForSerialization", <<>>)
    /\ events' = <<>>
    /\ NoOutput
    /\ UNCHANGED <<composerVars, editVars>>

setPreloadEnabled(b) ==
    /\ m_shouldPreload' = b
    /\ op' = SimpleCall("setPreloadEnabled", <<>>)
    /\ ret' = "void"
    /\ events' = <<>>
    /\ NoOutput
    /\ UNCHANGED <<editVars, m_model, m_attachments, m_forwarding, metaVars, tokenVars>>

(* The IMAP model finishes fetching the data of attachment row i. *)
FetchCompletes(i) ==
    /\ i \in 1..Len(m_attachments)
    /\ m_attachments[i].kind # ATTACHMENT_FILE
    /\ ~m_attachments[i].fetched
    /\ m_attachments' = [m_attachments EXCEPT ![i].fetched = TRUE]
    /\ op' = SimpleCall("fetched", <<i - 1>>)
    /\ ret' = "void"
    /\ events' = <<>>
    /\ NoOutput
    /\ UNCHANGED <<editVars, m_model, m_shouldPreload, m_forwarding, metaVars, tokenVars>>

ForwardedIndexes ==
    {[mailbox |-> MailboxInbox, uidValidity |-> 1, uid |-> u] : u \in {1, 3}}

Rows == -1..MaxAttachments

Next ==
    \/ \E path \in {PathReadable, PathUnreadable} : addFileAttachment(path)
    \/ \E row \in Rows : removeAttachment(row)
    \/ \E p \in DroppedAttachmentLists : dropAttachmentList(p)
    \/ \E p \in DroppedMessageLists : dropImapMessage(p)
    \/ \E p \in DroppedImapParts : dropImapPart(p)
    \/ \E index \in ForwardedIndexes : prepareForwarding(index)
    \/ isReadyForSerializationQuery
    \/ \E b \in BOOLEAN : setPreloadEnabled(b)
    \/ \E i \in 1..MaxAttachments : FetchCompletes(i)

Spec == Init /\ [][Next]_vars

----------------------------------------------------------------------------
(* Byte streams.  A token is a piece of literal text followed by raw       *)
(* bytes; a stream is a sequence of tokens.  Bytes(out) is the stream      *)
(* with the token borders removed: two streams hold the same bytes         *)
(* exactly when their Bytes are equal.                                     *)

T(str) == [lit |-> str, raw |-> <<>>]
R(bytes) == [lit |-> "", raw |-> bytes]
CRLF == T("\r\n")

(* Two streams without token borders, joined. *)
Joined(a, b) ==
    IF a = <<>> THEN b
    ELSE IF b = <<>> THEN a
    ELSE LET x == a[Len(a)]
             y == b[1]
         IN IF x.raw = <<>>
              THEN SubSeq(a, 1, Len(a) - 1)
                   \o <<[lit |-> x.lit \o y.lit, raw |-> y.raw]>> \o Tail(b)
            ELSE IF y.lit = ""
              THEN SubSeq(a, 1, Len(a) - 1)
                   \o <<[lit |-> x.lit, raw |-> x.raw \o y.raw]>> \o Tail(b)
            ELSE a \o b

RECURSIVE Bytes(_)
Bytes(out) ==
    IF out = <<>> THEN <<>>
    ELSE IF Len(out) = 1
      THEN (IF out[1].lit = "" /\ out[1].raw = <<>> THEN <<>> ELSE out)
    ELSE Joined(Bytes(SubSeq(out, 1, Len(out) \div 2)),
                Bytes(SubSeq(out, Len(out) \div 2 + 1, Len(out))))

----------------------------------------------------------------------------
(* What the composer asks of its collaborators when it serializes          *)
(* (Imap/Encoders, Imap::Message::MailAddress, AttachmentItem).            *)

(* MailAddress::asMailHeader *)
asMailHeader(addr) ==
    IF addr.host = "" THEN T(addr.mailbox) ELSE T(addr.mailbox \o "@" \o addr.host)

(* A text with characters outside ASCII, and its RFC 2047 encoded word. *)
UnicodeText == "Gruesse"
UnicodeTextEncoded == "=?UTF-8?Q?Gr=C3=BC=C3=9Fe?="

(* Imap::encodeRFC2047StringWithAsciiPrefix of prefix + text, prefix ASCII *)
encodeHeaderField(prefix, text) ==
    IF text = UnicodeText THEN prefix \o UnicodeTextEncoded ELSE prefix \o text

(* Imap::dateTimeToRfc2822 *)
dateTimeToRfc2822(t) ==
    IF t = 0 THEN "Thu, 01 Jan 1970 00:00:00 +0000" ELSE "Thu, 05 Nov 2026 10:00:00 +0000"

TrojitaVersion == "0.7"
systemPlatformVersion == "Linux"

HexDigits == <<"0", "1", "2", "3", "4", "5", "6", "7", "8", "9", "A", "B", "C", "D", "E", "F">>
Hex(b) == HexDigits[(b \div 16) + 1] \o HexDigits[(b % 16) + 1]

(* Imap::quotedPrintableEncode: "=" and the bytes that are not printable   *)
(* ASCII become =XX, CR and LF stay.                                       *)
RECURSIVE quotedPrintableEncode(_)
quotedPrintableEncode(bytes) ==
    IF bytes = <<>> THEN <<>>
    ELSE LET b == Head(bytes) IN
         (IF b = 61 \/ b > 126 \/ (b < 32 /\ b \notin {9, 10, 13})
          THEN <<T("=" \o Hex(b))>> ELSE <<R(<<b>>)>>)
         \o quotedPrintableEncode(Tail(bytes))

(* Imap::wrapFormatFlowed: a line that begins with a space or with ">" is  *)
(* space-stuffed.                                                          *)
wrapFormatFlowed(text) ==
    IF text # <<>> /\ Head(text) \in {32, 62} THEN <<32>> \o text ELSE text

Base64Alphabet ==
    <<"A", "B", "C", "D", "E", "F", "G", "H", "I", "J", "K", "L", "M", "N", "O", "P",
      "Q", "R", "S", "T", "U", "V", "W", "X", "Y", "Z", "a", "b", "c", "d", "e", "f",
      "g", "h", "i", "j", "k", "l", "m", "n", "o", "p", "q", "r", "s", "t", "u", "v",
      "w", "x", "y", "z", "0", "1", "2", "3", "4", "5", "6", "7", "8", "9", "+", "/">>
B64(n) == Base64Alphabet[n + 1]

(* QByteArray::toBase64 *)
RECURSIVE toBase64(_)
toBase64(b) ==
    IF b = <<>> THEN ""
    ELSE IF Len(b) = 1
      THEN B64(b[1] \div 4) \o B64((b[1] % 4) * 16) \o "=="
    ELSE IF Len(b) = 2
      THEN B64(b[1] \div 4) \o B64((b[1] % 4) * 16 + b[2] \div 16)
           \o B64((b[2] % 16) * 4) \o "="
    ELSE B64(b[1] \div 4) \o B64((b[1] % 4) * 16 + b[2] \div 16)
         \o B64((b[2] % 16) * 4 + b[3] \div 64) \o B64(b[3] % 64)
         \o toBase64(SubSeq(b, 4, Len(b)))

(* AttachmentItem::caption *)
caption(a) ==
    CASE a.kind = ATTACHMENT_FILE -> <<R(a.fileName)>>
      [] a.kind = ATTACHMENT_IMAP_MESSAGE -> <<T("IMAP message "), R(a.mailbox), T("/"), R(<<a.uid>>)>>
      [] a.kind = ATTACHMENT_IMAP_PART ->
           <<T("IMAP part "), R(a.mailbox), T("/"), R(<<a.uid>>), T("/"), R(a.trojitaPath)>>

(* AttachmentItem::mimeType *)
mimeType(a) ==
    CASE a.kind = ATTACHMENT_FILE -> "text/plain"
      [] a.kind = ATTACHMENT_IMAP_MESSAGE -> "message/rfc822"
      [] a.kind = ATTACHMENT_IMAP_PART -> "image/png"

(* AttachmentItem::suggestedCTE: files go out as base64, whole messages    *)
(* as they are, parts quoted-printable.                                    *)
suggestedCTE(a) ==
    CASE a.kind = ATTACHMENT_FILE -> "Base64"
      [] a.kind = ATTACHMENT_IMAP_MESSAGE -> "SevenBit"
      [] a.kind = ATTACHMENT_IMAP_PART -> "QuotedPrintable"

(* AttachmentItem::contentDispositionHeader *)
contentDispositionHeader(a) ==
    <<T("Content-Disposition: " \o (IF a.cdn = "CDN_INLINE" THEN "inline" ELSE "attachment")
        \o ";"), CRLF, T("\tfilename=\"")>> \o caption(a) \o <<T("\""), CRLF>>

(* AttachmentItem::imapUrl: empty for a file *)
imapUrl(a) ==
    CASE a.kind = ATTACHMENT_FILE -> <<>>
      [] a.kind = ATTACHMENT_IMAP_MESSAGE ->
           <<T("/"), R(a.mailbox), T(";UIDVALIDITY="), R(<<a.uidValidity>>),
             T("/;UID="), R(<<a.uid>>)>>
      [] a.kind = ATTACHMENT_IMAP_PART ->
           <<T("/"), R(a.mailbox), T(";UIDVALIDITY="), R(<<a.uidValidity>>),
             T("/;UID="), R(<<a.uid>>), T("/;SECTION="), R(a.trojitaPath)>>

(* The bytes behind AttachmentItem::rawData *)
DataOf(a) ==
    CASE a.kind = ATTACHMENT_FILE ->
           IF a.fileName \in BodyFiles
           THEN [i \in 1..a.fileName[2] |-> (i * 7) % 256]
           ELSE <<104, 105, 33, 10>>
      [] a.kind = ATTACHMENT_IMAP_MESSAGE -> <<88, 58, 32, 121, 13, 10, 13, 10, 122>>
      [] a.kind = ATTACHMENT_IMAP_PART -> <<61, 200, 65>>

(* AttachmentItem::rawData: absent when the source has disappeared *)
hasRawData(a) == ~a.gone

----------------------------------------------------------------------------
(* Serialization.  The writers are operators from the composer's fields    *)
(* (a record c) to the tokens they write.                                  *)

WrapColumn == 78
Base64LineChars == 76

UUIDs == {"67c8770b-44f1-410a-ab9a-f9b5446f13ee", "0a1f3b9c-5d2e-4f60-8a7b-9c0d1e2f3a4b"}

(* ensureRandomStrings, with the two values QUuid::createUuid would give *)
ensureRandomStrings_Regenerate(messageId, mimeBoundary, from, uuid1, uuid2) ==
    [m_messageId |-> uuid1 \o "@" \o (IF from.host = "" THEN "localhost" ELSE from.host),
     m_mimeBoundary |-> "trojita=_" \o uuid2]

(* ensureRandomStrings without the fallback for a sender with no host *)
ensureRandomStrings_NoFallback(messageId, mimeBoundary, from, uuid1, uuid2) ==
    [m_messageId |-> IF messageId = Null THEN uuid1 \o "@" \o from.host ELSE messageId,
     m_mimeBoundary |->
        IF mimeBoundary = Null THEN "trojita=_" \o uuid2 ELSE mimeBoundary]

ensureRandomStrings(messageId, mimeBoundary, from, uuid1, uuid2) ==
    [m_messageId |->
        IF messageId = Null
        THEN uuid1 \o "@" \o (IF from.host = "" THEN "localhost" ELSE from.host)
        ELSE messageId,
     m_mimeBoundary |->
        IF mimeBoundary = Null THEN "trojita=_" \o uuid2 ELSE mimeBoundary]

(* The list written on one line, the addresses joined with ", " *)
processListOfRecipientsIntoHeader_OneLine(prefix, addresses) ==
    IF addresses = <<>> THEN <<>>
    ELSE <<T(prefix)>>
         \o ConcatAll([i \in 1..(Len(addresses) - 1) |-> <<addresses[i], T(", ")>>])
         \o <<addresses[Len(addresses)], CRLF>>

(* processListOfRecipientsIntoHeader *)
processListOfRecipientsIntoHeader(prefix, addresses) ==
    IF addresses = <<>> THEN <<>>
    ELSE <<T(prefix)>>
         \o ConcatAll([i \in 1..(Len(addresses) - 1) |->
                          <<addresses[i], T(","), CRLF, T(" ")>>])
         \o <<addresses[Len(addresses)], CRLF>>

(* The grouping with "case ADDRESS_BCC" falling through into ADDRESS_CC *)
RECURSIVE rcptOfKind_BccFallsThrough(_, _)
rcptOfKind_BccFallsThrough(recipients, kind) ==
    IF recipients = <<>> THEN <<>>
    ELSE (IF Head(recipients).kind = kind
             \/ (kind = "ADDRESS_CC" /\ Head(recipients).kind = "ADDRESS_BCC")
          THEN <<asMailHeader(Head(recipients).addr)>> ELSE <<>>)
         \o rcptOfKind_BccFallsThrough(Tail(recipients), kind)

(* The grouping with every address put in front of the earlier ones *)
RECURSIVE rcptOfKind_Prepend(_, _)
rcptOfKind_Prepend(recipients, kind) ==
    IF recipients = <<>> THEN <<>>
    ELSE rcptOfKind_Prepend(Tail(recipients), kind)
         \o (IF Head(recipients).kind = kind THEN <<asMailHeader(Head(recipients).addr)>> ELSE <<>>)

(* The loop of writeCommonMessageBeginning that groups the recipients:     *)
(* the addresses of one kind, in list order.                               *)
RECURSIVE rcptOfKind(_, _)
rcptOfKind(recipients, kind) ==
    IF recipients = <<>> THEN <<>>
    ELSE (IF Head(recipients).kind = kind THEN <<asMailHeader(Head(recipients).addr)>> ELSE <<>>)
         \o rcptOfKind(Tail(recipients), kind)

(* The loop with the three bytes of "space < >" left out of the test *)
RECURSIVE writeMsgIdsFrom_WrapLate(_, _, _)
writeMsgIdsFrom_WrapLate(messageIds, i, charCount) ==
    IF i > Len(messageIds) THEN <<>>
    ELSE LET wrap == i # 1 /\ charCount # 0
                     /\ charCount + Len(messageIds[i]) > WrapColumn
         IN (IF wrap THEN <<CRLF>> ELSE <<>>)
            \o <<T(" <" \o messageIds[i] \o ">")>>
            \o writeMsgIdsFrom_WrapLate(messageIds, i + 1,
                               (IF wrap THEN 0 ELSE charCount) + Len(messageIds[i]) + 3)

(* The loop of writeHeaderWithMsgIds from the i-th id on *)
RECURSIVE writeMsgIdsFrom(_, _, _)
writeMsgIdsFrom(messageIds, i, charCount) ==
    IF i > Len(messageIds) THEN <<>>
    ELSE LET wrap == i # 1 /\ charCount # 0
                     /\ charCount + Len(messageIds[i]) > WrapColumn - 3
         IN (IF wrap THEN <<CRLF>> ELSE <<>>)
            \o <<T(" <" \o messageIds[i] \o ">")>>
            \o writeMsgIdsFrom(messageIds, i + 1,
                               (IF wrap THEN 0 ELSE charCount) + Len(messageIds[i]) + 3)

writeHeaderWithMsgIds(headerName, messageIds) ==
    IF messageIds = <<>> THEN <<>>
    ELSE <<T(headerName \o ":")>>
         \o writeMsgIdsFrom(messageIds, 1, Len(headerName) + 1)
         \o <<CRLF>>

(* The beginning with the Subject header written only for a subject *)
writeCommonMessageBeginning_SubjectIfSet(c) ==
    <<T("From: "), asMailHeader(c.m_from), CRLF>>
    \o processListOfRecipientsIntoHeader("To: ", rcptOfKind(c.m_recipients, "ADDRESS_TO"))
    \o processListOfRecipientsIntoHeader("Cc: ", rcptOfKind(c.m_recipients, "ADDRESS_CC"))
    \o (IF c.m_subject # ""
        THEN <<T(encodeHeaderField("Subject: ", c.m_subject)), CRLF>> ELSE <<>>)
    \o <<T("Date: " \o dateTimeToRfc2822(c.m_timestamp)), CRLF,
         T("MIME-Version: 1.0"), CRLF>>
    \o <<T("Message-ID: <" \o c.m_messageId \o ">"), CRLF>>
    \o writeHeaderWithMsgIds("In-Reply-To", c.m_inReplyTo)
    \o writeHeaderWithMsgIds("References", c.m_references)
    \o (IF c.m_organization # ""
        THEN <<T(encodeHeaderField("Organization: ", c.m_organization)), CRLF>> ELSE <<>>)
    \o (IF c.m_reportTrojitaVersions
        THEN <<T("User-Agent: Trojita/" \o TrojitaVersion \o "; " \o systemPlatformVersion), CRLF>>
        ELSE <<T("User-Agent: Trojita"), CRLF>>)
    \o (IF c.m_attachments # <<>>
        THEN <<T("Content-Type: multipart/mixed;"), CRLF,
               T("\tboundary=\"" \o c.m_mimeBoundary \o "\""), CRLF,
               CRLF, T("This is a multipart/mixed message in MIME format."), CRLF, CRLF,
               T("--" \o c.m_mimeBoundary), CRLF>>
        ELSE <<>>)
    \o <<T("Content-Type: text/plain; charset=utf-8; format=flowed"), CRLF,
         T("Content-Transfer-Encoding: quoted-printable"), CRLF, CRLF>>
    \o quotedPrintableEncode(wrapFormatFlowed(c.m_text))

writeCommonMessageBeginning(c) ==
    <<T("From: "), asMailHeader(c.m_from), CRLF>>
    \o processListOfRecipientsIntoHeader("To: ", rcptOfKind(c.m_recipients, "ADDRESS_TO"))
    \o processListOfRecipientsIntoHeader("Cc: ", rcptOfKind(c.m_recipients, "ADDRESS_CC"))
    \o <<T(encodeHeaderField("Subject: ", c.m_subject)), CRLF,
         T("Date: " \o dateTimeToRfc2822(c.m_timestamp)), CRLF,
         T("MIME-Version: 1.0"), CRLF>>
    \o <<T("Message-ID: <" \o c.m_messageId \o ">"), CRLF>>
    \o writeHeaderWithMsgIds("In-Reply-To", c.m_inReplyTo)
    \o writeHeaderWithMsgIds("References", c.m_references)
    \o (IF c.m_organization # ""
        THEN <<T(encodeHeaderField("Organization: ", c.m_organization)), CRLF>> ELSE <<>>)
    \o (IF c.m_reportTrojitaVersions
        THEN <<T("User-Agent: Trojita/" \o TrojitaVersion \o "; " \o systemPlatformVersion), CRLF>>
        ELSE <<T("User-Agent: Trojita"), CRLF>>)
    \o (IF c.m_attachments # <<>>
        THEN <<T("Content-Type: multipart/mixed;"), CRLF,
               T("\tboundary=\"" \o c.m_mimeBoundary \o "\""), CRLF,
               CRLF, T("This is a multipart/mixed message in MIME format."), CRLF, CRLF,
               T("--" \o c.m_mimeBoundary), CRLF>>
        ELSE <<>>)
    \o <<T("Content-Type: text/plain; charset=utf-8; format=flowed"), CRLF,
         T("Content-Transfer-Encoding: quoted-printable"), CRLF, CRLF>>
    \o quotedPrintableEncode(wrapFormatFlowed(c.m_text))

Written(out) == [ok |-> TRUE, out |-> out, err |-> <<>>]
Failed(err) == [ok |-> FALSE, out |-> <<>>, err |-> err]

writeAttachmentHeader(c, attachment) ==
    IF ~isAvailableLocally(attachment) /\ imapUrl(attachment) = <<>>
    THEN Failed(<<T("Attachment ")>> \o caption(attachment) \o <<T(" is not available")>>)
    ELSE Written(
        <<CRLF, T("--" \o c.m_mimeBoundary), CRLF,
          T("Content-Type: " \o mimeType(attachment)), CRLF>>
        \o contentDispositionHeader(attachment)
        \o (CASE suggestedCTE(attachment) = "Base64" ->
                   <<T("Content-Transfer-Encoding: base64"), CRLF>>
              [] suggestedCTE(attachment) = "SevenBit" ->
                   <<T("Content-Transfer-Encoding: 7bit"), CRLF>>
              [] suggestedCTE(attachment) = "EightBit" ->
                   <<T("Content-Transfer-Encoding: 8bit"), CRLF>>
              [] suggestedCTE(attachment) = "Binary" ->
                   <<T("Content-Transfer-Encoding: binary"), CRLF>>
              [] suggestedCTE(attachment) = "QuotedPrintable" ->
                   <<T("Content-Transfer-Encoding: quoted-printable"), CRLF>>)
        \o <<CRLF>>)

(* The while loop of writeAttachmentBody over what is left of the data *)
(* The loop reading as many bytes as a line has characters *)
RECURSIVE writeBodyFrom_ReadLineChars(_, _)
writeBodyFrom_ReadLineChars(cte, data) ==
    IF data = <<>> THEN <<>>
    ELSE CASE cte = "Base64" ->
                LET n == Base64LineChars
                    chunk == SubSeq(data, 1, IF Len(data) < n THEN Len(data) ELSE n)
                IN <<T(toBase64(chunk)), CRLF>>
                   \o writeBodyFrom_ReadLineChars(cte, SubSeq(data, Len(chunk) + 1, Len(data)))
           [] cte = "QuotedPrintable" -> quotedPrintableEncode(data)
           [] OTHER -> <<R(data)>>

RECURSIVE writeBodyFrom(_, _)
writeBodyFrom(cte, data) ==
    IF data = <<>> THEN <<>>
    ELSE CASE cte = "Base64" ->
                LET n == (Base64LineChars * 6) \div 8
                    chunk == SubSeq(data, 1, IF Len(data) < n THEN Len(data) ELSE n)
                IN <<T(toBase64(chunk)), CRLF>>
                   \o writeBodyFrom(cte, SubSeq(data, Len(chunk) + 1, Len(data)))
           [] cte = "QuotedPrintable" -> quotedPrintableEncode(data)
           [] OTHER -> <<R(data)>>

(* The body written without a look at where the data is *)
writeAttachmentBody_Unchecked(attachment) ==
    Written(writeBodyFrom(suggestedCTE(attachment), DataOf(attachment)))

writeAttachmentBody(attachment) ==
    IF ~isAvailableLocally(attachment)
    THEN Failed(<<T("Attachment ")>> \o caption(attachment) \o <<T(" is not available")>>)
    ELSE IF ~hasRawData(attachment)
    THEN Failed(<<T("Attachment ")>> \o caption(attachment) \o <<T(" disappeared")>>)
    ELSE Written(writeBodyFrom(suggestedCTE(attachment), DataOf(attachment)))

(* The closing boundary without its final two dashes *)
ClosingBoundary_Unterminated(c) == <<CRLF, T("--" \o c.m_mimeBoundary), CRLF>>

ClosingBoundary(c) == <<CRLF, T("--" \o c.m_mimeBoundary \o "--"), CRLF>>

(* The Q_FOREACH with the result of writeAttachmentBody not looked at *)
RECURSIVE asRawMessageFrom_BodyUnchecked(_, _, _)
asRawMessageFrom_BodyUnchecked(c, i, out) ==
    IF i > Len(c.m_attachments)
    THEN [ok |-> TRUE, out |-> out \o ClosingBoundary(c), err |-> <<>>]
    ELSE LET h == writeAttachmentHeader(c, c.m_attachments[i]) IN
         IF ~h.ok THEN [ok |-> FALSE, out |-> out, err |-> h.err]
         ELSE asRawMessageFrom_BodyUnchecked(c, i + 1,
                  out \o h.out \o writeAttachmentBody(c.m_attachments[i]).out)

(* The Q_FOREACH of asRawMessage from attachment i on; out is what has     *)
(* been written to target so far.                                          *)
RECURSIVE asRawMessageFrom(_, _, _)
asRawMessageFrom(c, i, out) ==
    IF i > Len(c.m_attachments)
    THEN [ok |-> TRUE, out |-> out \o ClosingBoundary(c), err |-> <<>>]
    ELSE LET h == writeAttachmentHeader(c, c.m_attachments[i]) IN
         IF ~h.ok THEN [ok |-> FALSE, out |-> out, err |-> h.err]
         ELSE LET b == writeAttachmentBody(c.m_attachments[i]) IN
              IF ~b.ok THEN [ok |-> FALSE, out |-> out \o h.out, err |-> b.err]
              ELSE asRawMessageFrom(c, i + 1, out \o h.out \o b.out)

(* asRawMessage after ensureRandomStrings *)
asRawMessage(c) ==
    LET beginning == writeCommonMessageBeginning(c) IN
    IF c.m_attachments # <<>> THEN asRawMessageFrom(c, 1, beginning)
    ELSE [ok |-> TRUE, out |-> beginning, err |-> <<>>]

CatenatePair(first, second) == [first |-> first, second |-> second]

(* The fragment list left as it is, whatever its last fragment *)
EnsureText_Never(frags) == frags

(* A text fragment begun whatever the last fragment is *)
EnsureText_Always(frags) == Append(frags, CatenatePair("CATENATE_TEXT", <<>>))

(* if (target.back().first != CATENATE_TEXT) target.append(empty text) *)
EnsureText(frags) ==
    IF frags[Len(frags)].first # "CATENATE_TEXT"
    THEN Append(frags, CatenatePair("CATENATE_TEXT", <<>>)) ELSE frags

(* io.write on a QBuffer opened for Append on target.back().second *)
WriteToBack(frags, out) == [frags EXCEPT ![Len(frags)].second = @ \o out]

(* The Q_FOREACH of asCatenateData from attachment i on *)
RECURSIVE asCatenateDataFrom_NoFinalText(_, _, _)
asCatenateDataFrom_NoFinalText(c, i, frags) ==
    IF i > Len(c.m_attachments)
    THEN [ok |-> TRUE, frags |-> WriteToBack(frags, ClosingBoundary(c)), err |-> <<>>]
    ELSE LET f1 == EnsureText(frags)
             h == writeAttachmentHeader(c, c.m_attachments[i])
             url == imapUrl(c.m_attachments[i])
         IN IF ~h.ok THEN [ok |-> FALSE, frags |-> f1, err |-> h.err]
            ELSE IF url = <<>>
              THEN LET b == writeAttachmentBody(c.m_attachments[i]) IN
                   IF ~b.ok THEN [ok |-> FALSE, frags |-> WriteToBack(f1, h.out), err |-> b.err]
                   ELSE asCatenateDataFrom_NoFinalText(c, i + 1, WriteToBack(f1, h.out \o b.out))
              ELSE asCatenateDataFrom_NoFinalText(c, i + 1,
                      Append(WriteToBack(f1, h.out), CatenatePair("CATENATE_URL", url)))

RECURSIVE asCatenateDataFrom(_, _, _)
asCatenateDataFrom(c, i, frags) ==
    IF i > Len(c.m_attachments)
    THEN [ok |-> TRUE, frags |-> WriteToBack(EnsureText(frags), ClosingBoundary(c)), err |-> <<>>]
    ELSE LET f1 == EnsureText(frags)
             h == writeAttachmentHeader(c, c.m_attachments[i])
             url == imapUrl(c.m_attachments[i])
         IN IF ~h.ok THEN [ok |-> FALSE, frags |-> f1, err |-> h.err]
            ELSE IF url = <<>>
              THEN LET b == writeAttachmentBody(c.m_attachments[i]) IN
                   IF ~b.ok THEN [ok |-> FALSE, frags |-> WriteToBack(f1, h.out), err |-> b.err]
                   ELSE asCatenateDataFrom(c, i + 1, WriteToBack(f1, h.out \o b.out))
              ELSE asCatenateDataFrom(c, i + 1,
                      Append(WriteToBack(f1, h.out), CatenatePair("CATENATE_URL", url)))

(* asCatenateData after ensureRandomStrings *)
asCatenateData(c) ==
    LET first == <<CatenatePair("CATENATE_TEXT", writeCommonMessageBeginning(c))>> IN
    IF c.m_attachments # <<>> THEN asCatenateDataFrom(c, 1, first)
    ELSE [ok |-> TRUE, frags |-> first, err |-> <<>>]

----------------------------------------------------------------------------
(* Serialization calls and the calls that set what they write              *)

(* The composer as the writers see it. *)
Composer ==
    [m_attachments |-> m_attachments, m_from |-> m_from, m_recipients |-> m_recipients,
     m_subject |-> m_subject, m_organization |-> m_organization, m_text |-> m_text,
     m_timestamp |-> m_timestamp, m_inReplyTo |-> m_inReplyTo,
     m_references |-> m_references, m_reportTrojitaVersions |-> m_reportTrojitaVersions,
     m_messageId |-> m_messageId, m_mimeBoundary |-> m_mimeBoundary]

WithTokens(c, tok) ==
    [c EXCEPT !.m_messageId = tok.m_messageId, !.m_mimeBoundary = tok.m_mimeBoundary]

Bool(b) == IF b THEN "true" ELSE "false"

asRawMessageCall ==
    \E uuid1, uuid2 \in UUIDs :
        LET tok == ensureRandomStrings(m_messageId, m_mimeBoundary, m_from, uuid1, uuid2)
            r == asRawMessage(WithTokens(Composer, tok))
        IN /\ m_messageId' = tok.m_messageId
           /\ m_mimeBoundary' = tok.m_mimeBoundary
           /\ target' = r.out
           /\ errorMessage' = r.err
           /\ ret' = Bool(r.ok)
           /\ catenate' = <<>>
           /\ op' = SimpleCall("asRawMessage", <<>>)
           /\ events' = <<>>
           /\ UNCHANGED <<editVars, m_model, m_attachments, m_shouldPreload, m_forwarding, metaVars>>

asCatenateDataCall ==
    \E uuid1, uuid2 \in UUIDs :
        LET tok == ensureRandomStrings(m_messageId, m_mimeBoundary, m_from, uuid1, uuid2)
            r == asCatenateData(WithTokens(Composer, tok))
        IN /\ m_messageId' = tok.m_messageId
           /\ m_mimeBoundary' = tok.m_mimeBoundary
           /\ catenate' = r.frags
           /\ errorMessage' = r.err
           /\ ret' = Bool(r.ok)
           /\ target' = <<>>
           /\ op' = SimpleCall("asCatenateData", <<>>)
           /\ events' = <<>>
           /\ UNCHANGED <<editVars, m_model, m_attachments, m_shouldPreload, m_forwarding, metaVars>>

(* What every setter leaves behind besides the field it sets. *)
Setter(name) ==
    /\ op' = SimpleCall(name, <<>>)
    /\ ret' = "void"
    /\ events' = <<>>
    /\ NoOutput
    /\ UNCHANGED <<editVars, m_model, m_attachments, m_shouldPreload, m_forwarding, tokenVars>>

setFrom(from) ==
    /\ m_from' = from
    /\ Setter("setFrom")
    /\ UNCHANGED <<m_recipients, m_subject, m_organization, m_text, m_timestamp,
                   m_inReplyTo, m_references, m_reportTrojitaVersions>>

setRecipients(recipients) ==
    /\ m_recipients' = recipients
    /\ Setter("setRecipients")
    /\ UNCHANGED <<m_from, m_subject, m_organization, m_text, m_timestamp,
                   m_inReplyTo, m_references, m_reportTrojitaVersions>>

setInReplyTo(inReplyTo) ==
    /\ m_inReplyTo' = inReplyTo
    /\ Setter("setInReplyTo")
    /\ UNCHANGED <<m_from, m_recipients, m_subject, m_organization, m_text, m_timestamp,
                   m_references, m_reportTrojitaVersions>>

setReferences(references) ==
    /\ m_references' = references
    /\ Setter("setReferences")
    /\ UNCHANGED <<m_from, m_recipients, m_subject, m_organization, m_text, m_timestamp,
                   m_inReplyTo, m_reportTrojitaVersions>>

setTimestamp(timestamp) ==
    /\ m_timestamp' = timestamp
    /\ Setter("setTimestamp")
    /\ UNCHANGED <<m_from, m_recipients, m_subject, m_organization, m_text,
                   m_inReplyTo, m_references, m_reportTrojitaVersions>>

setSubject(subject) ==
    /\ m_subject' = subject
    /\ Setter("setSubject")
    /\ UNCHANGED <<m_from, m_recipients, m_organization, m_text, m_timestamp,
                   m_inReplyTo, m_references, m_reportTrojitaVersions>>

setOrganization(organization) ==
    /\ m_organization' = organization
    /\ Setter("setOrganization")
    /\ UNCHANGED <<m_from, m_recipients, m_subject, m_text, m_timestamp,
                   m_inReplyTo, m_references, m_reportTrojitaVersions>>

setText(text) ==
    /\ m_text' = text
    /\ Setter("setText")
    /\ UNCHANGED <<m_from, m_recipients, m_subject, m_organization, m_timestamp,
                   m_inReplyTo, m_references, m_reportTrojitaVersions>>

setReportTrojitaVersions(reportVersions) ==
    /\ m_reportTrojitaVersions' = reportVersions
    /\ Setter("setReportTrojitaVersions")
    /\ UNCHANGED <<m_from, m_recipients, m_subject, m_organization, m_text, m_timestamp,
                   m_inReplyTo, m_references>>

(* The file or the fetched data behind attachment row i goes away. *)
SourceDisappears(i) ==
    /\ i \in 1..Len(m_attachments)
    /\ isAvailableLocally(m_attachments[i])
    /\ ~m_attachments[i].gone
    /\ m_attachments' = [m_attachments EXCEPT ![i].gone = TRUE]
    /\ op' = SimpleCall("disappeared", <<i - 1>>)
    /\ ret' = "void"
    /\ events' = <<>>
    /\ NoOutput
    /\ UNCHANGED <<editVars, m_model, m_shouldPreload, m_forwarding, metaVars, tokenVars>>

(* Attachments and serialization: lists are built one dropped record at a  *)
(* time.                                                                   *)
SingleRecordDrops ==
    {p \in DroppedAttachmentLists : p.shape = "ok" /\ p.r.ok /\ Len(p.r.items) = 1}

Senders == {DefaultFrom, [mailbox |-> "a", host |-> ""]}

NextRender ==
    \/ \E p \in SingleRecordDrops : dropAttachmentList(p)
    \/ \E row \in 0..(MaxAttachments - 1) : removeAttachment(row)
    \/ \E i \in 1..MaxAttachments : FetchCompletes(i)
    \/ \E i \in 1..MaxAttachments : SourceDisappears(i)
    \/ \E from \in Senders : setFrom(from)
    \/ asRawMessageCall
    \/ asCatenateDataCall

SpecRender == Init /\ [][NextRender]_vars

(* Headers: the envelope fields and what the serialization makes of them.  *)
AddrA == [mailbox |-> "a", host |-> "x.com"]
AddrB == [mailbox |-> "b", host |-> "y.com"]
AddrC == [mailbox |-> "c", host |-> "z.org"]
AddrLong1 == [mailbox |-> "a.recipient.with.a.rather.long.name.one", host |-> "mail.example.org"]
AddrLong2 == [mailbox |-> "a.recipient.with.a.rather.long.name.two", host |-> "mail.example.org"]
Rcpt(kind, addr) == [kind |-> kind, addr |-> addr]

RecipientLists ==
    {<<>>,
     <<Rcpt("ADDRESS_TO", AddrB)>>,
     <<Rcpt("ADDRESS_BCC", AddrC)>>,
     <<Rcpt("ADDRESS_BCC", AddrA), Rcpt("ADDRESS_BCC", AddrB)>>,
     <<Rcpt("ADDRESS_TO", AddrB), Rcpt("ADDRESS_BCC", AddrC)>>,
     <<Rcpt("ADDRESS_BCC", AddrC), Rcpt("ADDRESS_CC", AddrB), Rcpt("ADDRESS_BCC", AddrB)>>,
     <<Rcpt("ADDRESS_CC", AddrC), Rcpt("ADDRESS_TO", AddrB), Rcpt("ADDRESS_TO", AddrC)>>,
     <<Rcpt("ADDRESS_TO", AddrLong1), Rcpt("ADDRESS_TO", AddrLong2)>>,
     <<Rcpt("ADDRESS_TO", AddrB), Rcpt("ADDRESS_BCC", AddrC), Rcpt("ADDRESS_CC", AddrA),
       Rcpt("ADDRESS_TO", AddrA), Rcpt("ADDRESS_BCC", AddrB)>>}

Subjects == {"", "Hi", UnicodeText}
Organizations == {"", "Org"}

NextHeaders ==
    \/ \E recipients \in RecipientLists : setRecipients(recipients)
    \/ \E subject \in Subjects : setSubject(subject)
    \/ \E organization \in Organizations : setOrganization(organization)
    \/ \E from \in {AddrA, AddrC} : setFrom(from)
    \/ addFileAttachment(PathReadable)
    \/ asRawMessageCall
    \/ asCatenateDataCall

SpecHeaders == Init /\ [][NextHeaders]_vars

(* The envelope fields that the header properties leave alone. *)
Texts == {<<>>, <<62, 104, 61, 105>>}
MessageIdLists == {<<>>, <<"m1@x.com">>, <<"m1@x.com", "m2@y.com">>}

NextEnvelope ==
    \/ \E text \in Texts : setText(text)
    \/ \E timestamp \in {0, 1} : setTimestamp(timestamp)
    \/ \E inReplyTo \in MessageIdLists : setInReplyTo(inReplyTo)
    \/ \E references \in MessageIdLists : setReferences(references)
    \/ \E reportVersions \in BOOLEAN : setReportTrojitaVersions(reportVersions)
    \/ asRawMessageCall
    \/ asCatenateDataCall

SpecEnvelope == Init /\ [][NextEnvelope]_vars

(* writeHeaderWithMsgIds on its own: the two id lists are the input. *)
MaxIds == 3

RECURSIVE Rep(_)
Rep(n) == IF n = 0 THEN "" ELSE "x" \o Rep(n - 1)

IdLens == {1, 30, 31, 36, 37, 64, 65, 76}
Ids == {Rep(n) : n \in IdLens}
IdLists == UNION {[1..n -> Ids] : n \in 0..MaxIds}

InitMsgIds ==
    /\ m_model = ImapModel
    /\ m_attachments = <<>>
    /\ m_shouldPreload = FALSE
    /\ m_forwarding = NoIndex
    /\ m_from = DefaultFrom
    /\ m_recipients = <<>>
    /\ m_subject = ""
    /\ m_organization = ""
    /\ m_text = <<>>
    /\ m_timestamp = 0
    /\ \E ids \in IdLists :
          \/ m_inReplyTo = ids /\ m_references = <<>>
          \/ m_inReplyTo = <<>> /\ m_references = ids
    /\ m_reportTrojitaVersions = TRUE
    /\ m_messageId = Null
    /\ m_mimeBoundary = Null
    /\ op = SimpleCall("MessageComposer", <<>>)
    /\ ret = "void"
    /\ events = <<>>
    /\ target = <<>>
    /\ catenate = <<>>
    /\ errorMessage = <<>>
    /\ InitTextEdit

writeHeaderWithMsgIdsCall(headerName, messageIds) ==
    /\ target' = writeHeaderWithMsgIds(headerName, messageIds)
    /\ op' = SimpleCall("writeHeaderWithMsgIds", headerName)
    /\ ret' = "void"
    /\ events' = <<>>
    /\ catenate' = <<>>
    /\ errorMessage' = <<>>
    /\ UNCHANGED <<composerVars, editVars>>

writeInReplyTo == writeHeaderWithMsgIdsCall("In-Reply-To", m_inReplyTo)
writeReferences == writeHeaderWithMsgIdsCall("References", m_references)

NextMsgIds ==
    \/ writeInReplyTo
    \/ writeReferences

SpecMsgIds == InitMsgIds /\ [][NextMsgIds]_vars

(* Every way into and out of the attachment list, with what reads the     *)
(* list in between; the payloads dropped are the ones that insert.         *)
NextOrder ==
    \/ \E path \in {PathReadable, PathUnreadable} : addFileAttachment(path)
    \/ \E row \in Rows : removeAttachment(row)
    \/ \E p \in SingleRecordDrops : dropAttachmentList(p)
    \/ \E p \in {q \in DroppedMessageLists : q.r.ok} : dropImapMessage(p)
    \/ \E p \in {q \in DroppedImapParts : q.r.ok} : dropImapPart(p)
    \/ \E index \in ForwardedIndexes : prepareForwarding(index)
    \/ \E i \in 1..MaxAttachments : FetchCompletes(i)
    \/ isReadyForSerializationQuery
    \/ \E from \in {DefaultFrom} : setFrom(from)
    \/ asRawMessageCall
    \/ asCatenateDataCall

SpecOrder == Init /\ [][NextOrder]_vars

(* writeAttachmentBody on its own: the input is a composer with one file   *)
(* attached.                                                               *)
InitBody ==
    /\ m_model = ImapModel
    /\ \E path \in BodyFiles : m_attachments = <<FileAttachmentItem(path)>>
    /\ m_shouldPreload = FALSE
    /\ m_forwarding = NoIndex
    /\ m_from = DefaultFrom
    /\ m_recipients = <<>>
    /\ m_subject = ""
    /\ m_organization = ""
    /\ m_text = <<>>
    /\ m_timestamp = 0
    /\ m_inReplyTo = <<>>
    /\ m_references = <<>>
    /\ m_reportTrojitaVersions = TRUE
    /\ m_messageId = Null
    /\ m_mimeBoundary = Null
    /\ op = SimpleCall("MessageComposer", <<>>)
    /\ ret = "void"
    /\ events = <<>>
    /\ target = <<>>
    /\ catenate = <<>>
    /\ errorMessage = <<>>
    /\ InitTextEdit

writeAttachmentBodyCall(i) ==
    /\ i \in 1..Len(m_attachments)
    /\ LET r == writeAttachmentBody(m_attachments[i])
       IN /\ target' = r.out
          /\ errorMessage' = r.err
          /\ ret' = Bool(r.ok)
    /\ op' = SimpleCall("writeAttachmentBody", <<i - 1>>)
    /\ events' = <<>>
    /\ catenate' = <<>>
    /\ UNCHANGED <<composerVars, editVars>>

NextBody ==
    \/ \E i \in 1..MaxAttachments : writeAttachmentBodyCall(i)
    \/ \E i \in 1..MaxAttachments : SourceDisappears(i)

SpecBody == InitBody /\ [][NextBody]_vars

(* Drag and drop: a composer with or without an IMAP model, and what is    *)
(* dropped onto it.                                                        *)
InitDrop ==
    /\ m_model \in {ImapModel, Null}
    /\ m_attachments = <<>>
    /\ m_shouldPreload = FALSE
    /\ m_forwarding = NoIndex
    /\ m_from = DefaultFrom
    /\ m_recipients = <<>>
    /\ m_subject = ""
    /\ m_organization = ""
    /\ m_text = <<>>
    /\ m_timestamp = 0
    /\ m_inReplyTo = <<>>
    /\ m_references = <<>>
    /\ m_reportTrojitaVersions = TRUE
    /\ m_messageId = Null
    /\ m_mimeBoundary = Null
    /\ op = SimpleCall("MessageComposer", <<>>)
    /\ ret = "void"
    /\ events = <<>>
    /\ target = <<>>
    /\ catenate = <<>>
    /\ errorMessage = <<>>
    /\ InitTextEdit

dropMimeData(data, action, column) ==
    /\ ListCall(SimpleCall("dropMimeData", [data |-> data, action |-> action, column |-> column]),
                dropMimeDataCall(m_attachments, m_shouldPreload, m_model, data, action, column))
    /\ UNCHANGED m_forwarding

NextDrop ==
    \/ \E data \in DroppedMimeData, action \in DropActions, column \in Columns :
          dropMimeData(data, action, column)
    \/ \E path \in {PathReadable, PathUnreadable} : addFileAttachment(path)
    \/ \E row \in 0..(MaxAttachments - 1) : removeAttachment(row)

SpecDrop == InitDrop /\ [][NextDrop]_vars

----------------------------------------------------------------------------
(* Gui::ComposerTextEdit: the notification and its timer.                  *)

(* QTimer::stop and QTimer::start(msec); start on a running timer restarts *)
(* it.                                                                     *)
stop(timer) == StoppedTimer
start(timer, msec) == [active |-> TRUE, deadline |-> now + msec]

(* notify leaving the timer as it is for an empty text or no timeout *)
notifyCall_TimerKeptRunning(n, timeout) ==
    [m_notification |-> n,
     m_notificationTimer |->
        IF n = "" \/ timeout = 0 THEN m_notificationTimer
        ELSE start(m_notificationTimer, timeout)]

(* ComposerTextEdit::notify *)
notifyCall(n, timeout) ==
    [m_notification |-> n,
     m_notificationTimer |->
        IF n = "" \/ timeout = 0 THEN stop(m_notificationTimer)
        ELSE start(m_notificationTimer, timeout)]

Notifications == {"", "Sent", "Saved"}
Timeouts == 0..2

EditCall(call, r) ==
    /\ m_notification' = r.m_notification
    /\ m_notificationTimer' = r.m_notificationTimer
    /\ op' = call
    /\ ret' = "void"
    /\ events' = <<>>
    /\ NoOutput
    /\ UNCHANGED <<composerVars, now>>

notify(n, timeout) ==
    /\ now + timeout <= MaxTime
    /\ EditCall(SimpleCall("notify", [n |-> n, timeout |-> timeout, at |-> now]),
                notifyCall(n, timeout))

(* The timer is due: it emits timeout(), which is connected to the slot    *)
(* resetNotification, and that is notify(QString()).                       *)
resetNotification ==
    /\ m_notificationTimer.active
    /\ m_notificationTimer.deadline <= now
    /\ EditCall(SimpleCall("resetNotification", [at |-> now]), notifyCall("", 0))

(* Time passes. *)
Tick ==
    /\ now < MaxTime
    /\ now' = now + 1
    /\ UNCHANGED <<composerVars, callVars, m_notification, m_notificationTimer>>

NextTextEdit ==
    \/ \E n \in Notifications, timeout \in Timeouts : notify(n, timeout)
    \/ resetNotification
    \/ Tick

SpecTextEdit == Init /\ [][NextTextEdit]_vars

(* The event loop delivers a timeout that is due, and time does pass. *)
FairTextEdit == SpecTextEdit /\ WF_vars(resetNotification) /\ WF_vars(Tick)

----------------------------------------------------------------------------
(* Properties of the attachment list and of the drag-and-drop decoders,    *)
(* checked under Spec.                                                     *)

Decoders == {"dropAttachmentList", "dropImapMessage", "dropImapPart"}

InsertNotifications(evs) ==
    {i \in 1..Len(evs) : evs[i].e \in {"beginInsertRows", "endInsertRows"}}

(* The number of begin... notifications of evs not yet followed by their   *)
(* end... notification.                                                    *)
RECURSIVE OpenBrackets(_)
OpenBrackets(evs) ==
    IF evs = <<>> THEN 0
    ELSE LET e == evs[Len(evs)].e
             before == OpenBrackets(SubSeq(evs, 1, Len(evs) - 1))
         IN CASE e \in {"beginInsertRows", "beginRemoveRows"} -> before + 1
              [] e \in {"endInsertRows", "endRemoveRows"} -> before - 1
              [] OTHER -> before

(* C3: isReadyForSerialization returns true exactly when every attachment  *)
(* of the list is available locally (so true for the empty list), and the  *)
(* call changes nothing of the composer.                                   *)
C3_ReadyIffAllAvailable ==
    [][op'.name = "isReadyForSerialization" =>
         /\ ret' \in {"true", "false"}
         /\ ret' = "true" <=>
              \A i \in 1..Len(m_attachments) : isAvailableLocally(m_attachments[i])
         /\ UNCHANGED composerVars]_vars

C3_Witness ==
    /\ op.name = "isReadyForSerialization"
    /\ ret = "false"
    /\ Len(m_attachments) = 2
    /\ isAvailableLocally(m_attachments[1])
    /\ ~isAvailableLocally(m_attachments[2])

(* C4: no operation on the attachment list returns with a begin insert     *)
(* rows or begin remove rows notification that has not been followed by    *)
(* its end notification.                                                   *)
C4_NoOpenBracket == OpenBrackets(events) = 0

(* C5: addFileAttachment on a path that is not readable returns false and  *)
(* leaves the list as it was; on a readable path it returns true and the   *)
(* list is the old list with one item for that path appended.              *)
C5_AddFileAttachment ==
    [][op'.name = "addFileAttachment" =>
         IF op'.arg \in ReadableFiles
         THEN /\ ret' = "true"
              /\ Len(m_attachments') = Len(m_attachments) + 1
              /\ SubSeq(m_attachments', 1, Len(m_attachments)) = m_attachments
              /\ m_attachments'[Len(m_attachments')].kind = ATTACHMENT_FILE
              /\ m_attachments'[Len(m_attachments')].fileName = op'.arg
         ELSE /\ ret' = "false"
              /\ m_attachments' = m_attachments]_vars

C5_Witness ==
    /\ op.name = "addFileAttachment"
    /\ op.arg = PathUnreadable
    /\ ret = "false"
    /\ m_attachments # <<>>

(* C6: a payload that is empty, truncated, has a negative count, a record  *)
(* of unknown kind or trailing data makes its decoder return false, with   *)
(* the attachment list unmodified and no insert notification.              *)
C6_MalformedNeverMutates ==
    [][(op'.name \in Decoders /\ op'.shape \in Malformed) =>
         /\ ret' = "false"
         /\ m_attachments' = m_attachments
         /\ InsertNotifications(events') = {}]_vars

C6_Witness ==
    /\ op.name = "dropAttachmentList"
    /\ op.shape = "trailing"
    /\ ret = "false"
    /\ m_attachments # <<>>

(* C7: when the construction of an attachment of a well-formed payload     *)
(* raises unknown message index, at whatever position of the batch, the    *)
(* decoder returns false, the list is unmodified and no notification was   *)
(* emitted.                                                                *)
C7_VanishedMessageInsertsNothing ==
    [][(op'.name \in Decoders /\ op'.shape = "ok" /\ op'.bad = "vanished") =>
         /\ ret' = "false"
         /\ m_attachments' = m_attachments
         /\ events' = <<>>]_vars

C7_Witness ==
    /\ op.name = "dropImapMessage"
    /\ op.shape = "ok" /\ op.bad = "vanished" /\ op.pos = 2
    /\ ret = "false"
    /\ m_attachments # <<>>

(* C8: unknown message index never leaves an operation of the composer:    *)
(* every operation returns to its caller.                                  *)
C8_UnknownMessageIndexIsCaught == ret # "UnknownMessageIndex"

(* The begin insert rows notifications of evs. *)
InsertRanges(evs) == {i \in 1..Len(evs) : evs[i].e = "beginInsertRows"}

(* C22: whenever a decoder returns true, the list has grown by at least    *)
(* one attachment, and the one range [first, last] announced by begin      *)
(* insert rows has first <= last and as many rows as were appended.        *)
C22_SuccessfulDropGrowsByValidRange ==
    [][(op'.name \in Decoders /\ ret' = "true") =>
         /\ Len(m_attachments') >= Len(m_attachments) + 1
         /\ SubSeq(m_attachments', 1, Len(m_attachments)) = m_attachments
         /\ Cardinality(InsertRanges(events')) = 1
         /\ \A i \in InsertRanges(events') :
               /\ events'[i].first <= events'[i].last
               /\ events'[i].last - events'[i].first + 1
                    = Len(m_attachments') - Len(m_attachments)]_vars

(* C15: dropImapMessage on a payload that is stream-wise well formed:      *)
(* with an unknown mailbox, an empty uid list or a zero uidValidity it      *)
(* returns false, leaves the list alone and notifies nothing; otherwise,   *)
(* with every message present, it returns true, the list is the old list   *)
(* followed by one inline message attachment per uid in uid-list order,    *)
(* and the notifications are one beginInsertRows(oldSize, oldSize + n - 1) *)
(* first and one endInsertRows last.                                       *)
C15_DropImapMessage ==
    [][\A d \in MessageListDescs :
         (op'.name = "dropImapMessage" /\ op'.shape = "ok" /\ op'.arg = EncodeFields(d)) =>
            LET n == Len(d.uids)
                old == Len(m_attachments)
            IN IF d.mailbox \notin Mailboxes \/ n = 0 \/ d.uidValidity = 0
               THEN ret' = "false" /\ m_attachments' = m_attachments /\ events' = <<>>
               ELSE (\A i \in 1..n : MessageExists(d.mailbox, d.uids[i])) =>
                      /\ ret' = "true"
                      /\ Len(m_attachments') = old + n
                      /\ SubSeq(m_attachments', 1, old) = m_attachments
                      /\ \A i \in 1..n :
                            LET a == m_attachments'[old + i]
                            IN /\ a.kind = ATTACHMENT_IMAP_MESSAGE
                               /\ a.mailbox = d.mailbox
                               /\ a.uidValidity = d.uidValidity
                               /\ a.uid = d.uids[i]
                               /\ a.cdn = "CDN_INLINE"
                      /\ events'[1] = beginInsertRows(old, old + n - 1)
                      /\ events'[Len(events')] = endInsertRows
                      /\ Cardinality(InsertNotifications(events')) = 2]_vars

C15_Witness ==
    /\ op.name = "dropImapMessage" /\ op.shape = "ok" /\ ret = "true"
    /\ Len(m_attachments) = 2
    /\ m_attachments[1].uid = 1 /\ m_attachments[2].uid = 2
    /\ m_attachments[2].cdn = "CDN_INLINE"
    /\ events[1] = beginInsertRows(0, 1)
    /\ m_shouldPreload

(* The part descriptors that are dropped. *)
PartDescs ==
    {d \in CleanRecords \cup VanishedRecords \cup InvalidRecords : d.kind = ATTACHMENT_IMAP_PART}

(* C16: dropImapPart on a payload that is stream-wise well formed: with    *)
(* an unknown mailbox, a zero uidValidity, a zero uid or an empty part     *)
(* path it returns false and leaves the list alone; otherwise, the message *)
(* being present, it returns true and the list is the old list followed    *)
(* by one part attachment for that mailbox, uidValidity, uid and path,     *)
(* notified as the one row oldSize.                                        *)
C16_DropImapPart ==
    [][\A d \in PartDescs :
         (op'.name = "dropImapPart" /\ op'.shape = "ok" /\ op'.arg = EncodeFields(d)) =>
            LET old == Len(m_attachments)
            IN IF \/ d.mailbox \notin Mailboxes \/ d.uidValidity = 0
                  \/ d.uid = 0 \/ d.trojitaPath = <<>>
               THEN ret' = "false" /\ m_attachments' = m_attachments /\ events' = <<>>
               ELSE MessageExists(d.mailbox, d.uid) =>
                      /\ ret' = "true"
                      /\ Len(m_attachments') = old + 1
                      /\ SubSeq(m_attachments', 1, old) = m_attachments
                      /\ LET a == m_attachments'[old + 1]
                         IN /\ a.kind = ATTACHMENT_IMAP_PART
                            /\ a.mailbox = d.mailbox
                            /\ a.uidValidity = d.uidValidity
                            /\ a.uid = d.uid
                            /\ a.trojitaPath = d.trojitaPath
                      /\ events'[1] = beginInsertRows(old, old)
                      /\ events'[Len(events')] = endInsertRows
                      /\ Cardinality(InsertNotifications(events')) = 2]_vars

C16_Witness ==
    /\ op.name = "dropImapPart" /\ op.shape = "ok" /\ ret = "true"
    /\ Len(m_attachments) = 2
    /\ m_attachments[1].kind = ATTACHMENT_FILE
    /\ m_attachments[2].kind = ATTACHMENT_IMAP_PART
    /\ m_attachments[2].trojitaPath = PartPath
    /\ events[1] = beginInsertRows(1, 1)

Inserters ==
    {"addFileAttachment", "dropAttachmentList", "dropImapMessage", "dropImapPart",
     "prepareForwarding"}

(* The items of a list, whatever has been fetched of them since. *)
Items(atts) == [i \in 1..Len(atts) |-> [atts[i] EXCEPT !.fetched = FALSE, !.gone = FALSE]]

(* C17: a step leaves the items of the list as they are, or is a call of   *)
(* an inserting method that puts new items after the old list and          *)
(* announces the rows from the old size on, or is removeAttachment of a    *)
(* row of the list, after which the items before that row and the items    *)
(* after it are left, in their order; removeAttachment of any other row    *)
(* changes nothing and notifies nothing; setters, the readiness check and  *)
(* the serialization calls leave the list as it is.                        *)
C17_OrderIsStable ==
    [][LET old == Len(m_attachments)
           row == op'.arg[1]
       IN /\ \/ Items(m_attachments') = Items(m_attachments)
             \/ /\ op'.name \in Inserters
                /\ Len(m_attachments') > old
                /\ SubSeq(m_attachments', 1, old) = m_attachments
                /\ events'[1] = beginInsertRows(old, Len(m_attachments') - 1)
             \/ /\ op'.name = "removeAttachment"
                /\ row \in 0..(old - 1)
          /\ op'.name = "removeAttachment" =>
                IF row \in 0..(old - 1)
                THEN /\ m_attachments'
                         = [i \in 1..(old - 1) |->
                               IF i <= row THEN m_attachments[i] ELSE m_attachments[i + 1]]
                     /\ events' = <<beginRemoveRows(row, row), endRemoveRows>>
                ELSE m_attachments' = m_attachments /\ events' = <<>>
          /\ op'.name \in {"asRawMessage", "asCatenateData", "isReadyForSerialization",
                          "setFrom"} =>
                m_attachments' = m_attachments /\ events' = <<>>]_vars

C17_Witness ==
    /\ op.name = "removeAttachment" /\ op.arg = <<0>>
    /\ events = <<beginRemoveRows(0, 0), endRemoveRows>>
    /\ Len(m_attachments) = 1
    /\ m_attachments[1].kind = ATTACHMENT_IMAP_MESSAGE
    /\ m_attachments[1].uid = 2
    /\ m_messageId # Null

(* C23: whatever a call appends to the attachment list, a file-backed      *)
(* attachment among it is available locally (its file is readable) when    *)
(* the call returns.                                                       *)
C23_NoUnreadableFileInserted ==
    [][op'.name \in {"addFileAttachment", "dropMimeData"} =>
         \A i \in (Len(m_attachments) + 1)..Len(m_attachments') :
            m_attachments'[i].kind = ATTACHMENT_FILE => isAvailableLocally(m_attachments'[i])]_vars

(* What a call left behind is what this outcome says. *)
LeftBehind(o) == ret' = o.ret /\ m_attachments' = o.atts /\ events' = o.events

(* C26: dropMimeData with IgnoreAction returns true and changes nothing;   *)
(* otherwise, with column > 0 or without a model, it returns false and     *)
(* changes nothing; otherwise it does what the decoder of the first format *)
(* present does, in the order attachment list, message list, IMAP part,    *)
(* and no other decoder runs; with none of these formats it hands every    *)
(* local-file URL to addFileAttachment, appends the readable ones in       *)
(* order, and returns true exactly when it appended one.                   *)
C26_DropMimeDataDispatch ==
    [][op'.name = "dropMimeData" =>
         LET data == op'.arg.data
             local == SelectSeq(data.urls, LAMBDA u : u.isLocalFile)
             readable == SelectSeq(local, LAMBDA u : u.path \in ReadableFiles)
             nothing == /\ UNCHANGED composerVars
                        /\ events' = <<>>
         IN /\ UNCHANGED <<m_model, m_shouldPreload, m_forwarding, metaVars, tokenVars>>
            /\ IF op'.arg.action = "IgnoreAction" THEN ret' = "true" /\ nothing
               ELSE IF op'.arg.column > 0 \/ m_model = Null THEN ret' = "false" /\ nothing
               ELSE IF xTrojitaAttachmentList \in data.formats
               THEN LeftBehind(dropAttachmentListInsert(m_attachments, m_shouldPreload,
                                                        data.attachmentList.r))
               ELSE IF xTrojitaMessageList \in data.formats
               THEN LeftBehind(dropImapMessageInsert(m_attachments, m_shouldPreload,
                                                     data.messageList.r))
               ELSE IF xTrojitaImapPart \in data.formats
               THEN LeftBehind(dropImapPartInsert(m_attachments, m_shouldPreload,
                                                  data.imapPart.r))
               ELSE /\ m_attachments' =
                         m_attachments \o [i \in 1..Len(readable) |->
                                               FileAttachmentItem(readable[i].path)]
                    /\ Cardinality(InsertRanges(events')) = Len(local)
                    /\ ret' = IF Len(readable) >= 1 THEN "true" ELSE "false"]_vars

C26_Witness ==
    /\ op.name = "dropMimeData"
    /\ op.arg.action = "CopyAction" /\ op.arg.column = 0
    /\ op.arg.data.formats = {}
    /\ op.arg.data.urls = <<Url(TRUE, PathUnreadable), Url(TRUE, PathReadable)>>
    /\ ret = "true"
    /\ Len(m_attachments) = 2
    /\ Cardinality(InsertRanges(events)) = 2

----------------------------------------------------------------------------
(* Properties of serialization                                             *)

Renders == {"asRawMessage", "asCatenateData"}

(* Everything a serialization call has written, fragment after fragment. *)
OutputOf(t, frags) == t \o ConcatAll([i \in 1..Len(frags) |-> frags[i].second])

UsesTokens(out, atts, messageId, mimeBoundary) ==
    /\ T("Message-ID: <" \o messageId \o ">") \in Range(out)
    /\ atts # <<>> => T("--" \o mimeBoundary) \in Range(out)

(* C1: a token of the composer, once generated, is never replaced; every   *)
(* serialization call leaves both tokens set; of two serialization calls   *)
(* in a row both write the same Message-ID and boundary, and when they are *)
(* calls of the same method they write the same output, return the same    *)
(* value and report the same error.                                        *)
C1_IdempotentRendering ==
    [][/\ m_messageId # Null => m_messageId' = m_messageId
       /\ m_mimeBoundary # Null => m_mimeBoundary' = m_mimeBoundary
       /\ op'.name \in Renders => m_messageId' # Null /\ m_mimeBoundary' # Null
       /\ (op.name \in Renders /\ op'.name \in Renders) =>
             /\ UsesTokens(OutputOf(target, catenate), m_attachments,
                           m_messageId, m_mimeBoundary)
             /\ UsesTokens(OutputOf(target', catenate'), m_attachments',
                           m_messageId, m_mimeBoundary)
             /\ op'.name = op.name =>
                   /\ target' = target /\ catenate' = catenate
                   /\ ret' = ret /\ errorMessage' = errorMessage]_vars

(* A serialization call that found the tokens set by an earlier one: the   *)
(* Message-ID it wrote was generated before the sender lost its host.      *)
C1_Witness ==
    /\ op.name = "asCatenateData" /\ ret = "true"
    /\ Len(m_attachments) = 2
    /\ Len(catenate) = 3
    /\ m_from.host = ""
    /\ m_messageId \in {u \o "@x.com" : u \in UUIDs}

(* The attachments that go out as URL fragments, in list order. *)
RECURSIVE UrlAttachments(_)
UrlAttachments(atts) ==
    IF atts = <<>> THEN <<>>
    ELSE (IF imapUrl(Head(atts)) # <<>> THEN <<Head(atts)>> ELSE <<>>)
         \o UrlAttachments(Tail(atts))

(* The fragments in order, each URL fragment replaced by what              *)
(* writeAttachmentBody writes for its attachment.                          *)
RECURSIVE Resolve(_, _)
Resolve(frags, urlAtts) ==
    IF frags = <<>> THEN <<>>
    ELSE IF Head(frags).first = "CATENATE_URL"
      THEN writeAttachmentBody(Head(urlAtts)).out \o Resolve(Tail(frags), Tail(urlAtts))
    ELSE Head(frags).second \o Resolve(Tail(frags), urlAtts)

HeaderOutput == IF op.name = "asRawMessage" THEN target ELSE catenate[1].second

RecipientsOfKinds(kinds) == {r.addr : r \in {x \in Range(m_recipients) : x.kind \in kinds}}

BccOnly ==
    RecipientsOfKinds({"ADDRESS_BCC"})
        \ (RecipientsOfKinds({"ADDRESS_TO", "ADDRESS_CC"}) \cup {m_from})

(* C9: what a serialization call writes holds no "Bcc: " header and none   *)
(* of the addresses that are recipients as Bcc only, while it holds every  *)
(* To and every Cc address.                                                *)
C9_BccNeverWritten ==
    op.name \in Renders =>
        /\ T("Bcc: ") \notin Range(HeaderOutput)
        /\ \A a \in BccOnly : asMailHeader(a) \notin Range(HeaderOutput)
        /\ \A a \in RecipientsOfKinds({"ADDRESS_TO", "ADDRESS_CC"}) :
              asMailHeader(a) \in Range(HeaderOutput)

C9_Witness ==
    /\ op.name = "asCatenateData"
    /\ Len(m_recipients) = 3
    /\ BccOnly = {AddrC}
    /\ RecipientsOfKinds({"ADDRESS_CC"}) = {AddrB}
    /\ m_attachments # <<>>

(* The rows of the attachments that asRawMessage cannot write. *)
FailingRows ==
    {i \in 1..Len(m_attachments) :
        ~isAvailableLocally(m_attachments[i]) \/ ~hasRawData(m_attachments[i])}

FirstFailingRow == CHOOSE i \in FailingRows : \A j \in FailingRows : i <= j

(* C12: asRawMessage returns false exactly when some attachment is not     *)
(* available locally or has lost its data; the error message then holds    *)
(* the caption of the first such attachment, and the target holds the      *)
(* beginning of the message, header and body of every attachment before    *)
(* that one, that attachment's header when it could be written, and        *)
(* nothing else: no later attachment and no closing boundary.              *)
C12_AbortsAtFirstFailure ==
    op.name = "asRawMessage" =>
        /\ ret = "false" <=> FailingRows # {}
        /\ FailingRows # {} =>
              LET f == FirstFailingRow
                  a == m_attachments[f]
              IN /\ errorMessage # <<>>
                 /\ SubSeq(errorMessage, 2, Len(errorMessage) - 1) = caption(a)
                 /\ errorMessage[1] = T("Attachment ")
                 /\ errorMessage[Len(errorMessage)]
                      = IF isAvailableLocally(a) THEN T(" disappeared")
                        ELSE T(" is not available")
                 /\ target
                      = writeCommonMessageBeginning(Composer)
                        \o ConcatAll([j \in 1..(f - 1) |->
                              writeAttachmentHeader(Composer, m_attachments[j]).out
                              \o writeAttachmentBody(m_attachments[j]).out])
                        \o writeAttachmentHeader(Composer, a).out
                 /\ T("--" \o m_mimeBoundary \o "--") \notin Range(target)
                 /\ Cardinality({k \in 1..Len(target) : target[k] = T("--" \o m_mimeBoundary)})
                      <= f + 1

C12_Witness ==
    /\ op.name = "asRawMessage" /\ ret = "false"
    /\ Len(m_attachments) = 2
    /\ FailingRows = {1}
    /\ m_attachments[1].kind = ATTACHMENT_IMAP_MESSAGE
    /\ m_attachments[1].gone
    /\ m_attachments[2].kind = ATTACHMENT_FILE

(* The Subject and the Organization headers that can be written. *)
SubjectHeaders == {T(encodeHeaderField("Subject: ", x)) : x \in Subjects}
OrganizationHeaders == {T(encodeHeaderField("Organization: ", x)) : x \in Organizations}

(* The places of out that hold one of the tokens. *)
Places(out, tokens) == {k \in 1..Len(out) : out[k] \in tokens}

(* C13 as stated: a Subject header is written once for a subject and not   *)
(* at all for an empty one, and so the Organization header.                *)
C13_EmptyHeadersOmitted ==
    op.name \in Renders =>
        /\ Cardinality(Places(HeaderOutput, SubjectHeaders))
             = IF m_subject = "" THEN 0 ELSE 1
        /\ Cardinality(Places(HeaderOutput, OrganizationHeaders))
             = IF m_organization = "" THEN 0 ELSE 1

(* C13: the Subject header is written exactly once whatever the subject,   *)
(* with nothing after "Subject: " when the subject is empty; the           *)
(* Organization header is written exactly once for an organization and     *)
(* not at all for an empty one; each is a line of its own.                 *)
C13_SubjectAlwaysOrganizationIfSet ==
    op.name \in Renders =>
        /\ Cardinality(Places(HeaderOutput, SubjectHeaders)) = 1
        /\ \A k \in Places(HeaderOutput, SubjectHeaders) :
              /\ HeaderOutput[k].lit
                   = "Subject: " \o (IF m_subject = UnicodeText THEN UnicodeTextEncoded
                                     ELSE m_subject)
              /\ HeaderOutput[k - 1] = CRLF /\ HeaderOutput[k + 1] = CRLF
        /\ Cardinality(Places(HeaderOutput, OrganizationHeaders))
             = IF m_organization = "" THEN 0 ELSE 1
        /\ \A k \in Places(HeaderOutput, OrganizationHeaders) :
              /\ HeaderOutput[k].lit = "Organization: " \o m_organization
              /\ HeaderOutput[k - 1] = CRLF /\ HeaderOutput[k + 1] = CRLF

C13_Witness ==
    /\ op.name = "asRawMessage"
    /\ m_subject = "" /\ m_organization = ""
    /\ T("Subject: ") \in Range(HeaderOutput)
    /\ m_recipients # <<>>

(* The domain a Message-ID generated for the sender from gets. *)
DomainOf(from) == IF from.host = "" THEN "localhost" ELSE from.host

MessageIdsFor(from) == {u \o "@" \o DomainOf(from) : u \in UUIDs}

(* C14 as stated: the Message-ID a serialization call writes has the       *)
(* domain of the sender the composer has at that call.                     *)
C14_DomainOfCurrentFrom ==
    op.name \in Renders =>
        /\ m_messageId \in MessageIdsFor(m_from)
        /\ T("Message-ID: <" \o m_messageId \o ">") \in Range(OutputOf(target, catenate))

(* C14: every serialization call writes the composer's Message-ID; the     *)
(* first one generates it as a UUID, "@" and the host of the sender the    *)
(* composer has at that call, "localhost" for an empty host; every later   *)
(* one writes that same Message-ID, whatever the sender is by then.        *)
C14_DomainOfFromAtFirstRender ==
    [][op'.name \in Renders =>
          /\ T("Message-ID: <" \o m_messageId' \o ">")
                \in Range(OutputOf(target', catenate'))
          /\ IF m_messageId = Null
             THEN m_from' = m_from /\ m_messageId' \in MessageIdsFor(m_from)
             ELSE m_messageId' = m_messageId]_vars

C14_Witness ==
    /\ op.name = "asRawMessage"
    /\ m_from.host = "x.com"
    /\ m_messageId \in {u \o "@localhost" : u \in UUIDs}
    /\ T("Message-ID: <" \o m_messageId \o ">") \in Range(target)

(* The places of out that hold tok as a whole line. *)
LinePlaces(out, tok) ==
    {k \in 1..(Len(out) - 1) :
        /\ out[k] = tok
        /\ k = 1 \/ out[k - 1] = CRLF
        /\ out[k + 1] = CRLF}

(* The j-th smallest element of a set of numbers. *)
Nth(set, j) == CHOOSE k \in set : Cardinality({x \in set : x < k}) = j - 1

(* C18: a successful asRawMessage with no attachment writes no boundary    *)
(* line, no boundary parameter and no multipart/mixed Content-Type; with   *)
(* N >= 1 attachments it writes the multipart/mixed Content-Type with the  *)
(* boundary parameter once, N + 1 lines "--boundary", the first followed   *)
(* by the Content-Type of the text part and the others by the              *)
(* Content-Type of the attachments in list order, and one line             *)
(* "--boundary--", which is the last line of the output.                   *)
C18_MultipartFraming ==
    (op.name = "asRawMessage" /\ ret = "true") =>
        LET N == Len(m_attachments)
            open == LinePlaces(target, T("--" \o m_mimeBoundary))
            close == LinePlaces(target, T("--" \o m_mimeBoundary \o "--"))
            mixed == LinePlaces(target, T("Content-Type: multipart/mixed;"))
            param == LinePlaces(target, T("\tboundary=\"" \o m_mimeBoundary \o "\""))
        IN IF N = 0
           THEN open = {} /\ close = {} /\ mixed = {} /\ param = {}
           ELSE /\ Cardinality(mixed) = 1 /\ Cardinality(param) = 1
                /\ \A k \in mixed : param = {k + 2}
                /\ Cardinality(open) = N + 1
                /\ \A k \in param : k < Nth(open, 1)
                /\ target[Nth(open, 1) + 2]
                     = T("Content-Type: text/plain; charset=utf-8; format=flowed")
                /\ \A j \in 1..N :
                      target[Nth(open, j + 1) + 2]
                        = T("Content-Type: " \o mimeType(m_attachments[j]))
                /\ close = {Len(target) - 1}
                /\ \A k \in open : k < Len(target) - 1

C18_Witness ==
    /\ op.name = "asRawMessage" /\ ret = "true"
    /\ Len(m_attachments) = 2
    /\ m_attachments[1].kind = ATTACHMENT_IMAP_MESSAGE
    /\ m_attachments[2].kind = ATTACHMENT_FILE
    /\ Cardinality(LinePlaces(target, T("--" \o m_mimeBoundary))) = 3

(* part is in whole, at some place in it. *)
Holds(whole, part) ==
    \E off \in 0..(Len(whole) - Len(part)) : SubSeq(whole, off + 1, off + Len(part)) = part

EndsWith(whole, part) ==
    /\ Len(whole) >= Len(part)
    /\ SubSeq(whole, Len(whole) - Len(part) + 1, Len(whole)) = part

(* C19: asCatenateData succeeds exactly when every attachment without an   *)
(* imap URL is available locally with its data there, whatever the state   *)
(* of the attachments with a URL.  When it succeeds, the URL fragments     *)
(* are as many as the attachments with a URL and carry their URLs in list  *)
(* order, each right after a text fragment that ends with the header of    *)
(* its attachment; the first and the last fragment are text fragments;     *)
(* and the header of every attachment without a URL, followed by its       *)
(* encoded body, is in a text fragment.                                    *)
C19_CatenateFragments ==
    op.name = "asCatenateData" =>
        LET urlAtts == UrlAttachments(m_attachments)
            urls == {k \in 1..Len(catenate) : catenate[k].first = "CATENATE_URL"}
            texts == {k \in 1..Len(catenate) : catenate[k].first = "CATENATE_TEXT"}
        IN /\ ret = "true" <=>
                 \A i \in 1..Len(m_attachments) :
                    imapUrl(m_attachments[i]) = <<>> =>
                       isAvailableLocally(m_attachments[i]) /\ hasRawData(m_attachments[i])
           /\ ret = "true" =>
                 /\ Cardinality(urls) = Len(urlAtts)
                 /\ 1 \in texts /\ Len(catenate) \in texts
                 /\ \A j \in 1..Len(urlAtts) :
                       LET k == Nth(urls, j)
                       IN /\ catenate[k].second = imapUrl(urlAtts[j])
                          /\ (k - 1) \in texts
                          /\ EndsWith(catenate[k - 1].second,
                                      writeAttachmentHeader(Composer, urlAtts[j]).out)
                 /\ \A i \in 1..Len(m_attachments) :
                       imapUrl(m_attachments[i]) = <<>> =>
                          \E k \in texts :
                             Holds(catenate[k].second,
                                   writeAttachmentHeader(Composer, m_attachments[i]).out
                                   \o writeAttachmentBody(m_attachments[i]).out)

C19_Witness ==
    /\ op.name = "asCatenateData" /\ ret = "true"
    /\ Len(m_attachments) = 2
    /\ m_attachments[1].kind = ATTACHMENT_IMAP_PART
    /\ ~isAvailableLocally(m_attachments[1])
    /\ m_attachments[2].kind = ATTACHMENT_IMAP_MESSAGE
    /\ m_attachments[2].gone
    /\ Len(catenate) = 5

(* The addresses the recipient list gives a role, as they are written. *)
RoleAddresses(kind) ==
    LET ofKind == SelectSeq(m_recipients, LAMBDA r : r.kind = kind)
    IN [i \in 1..Len(ofKind) |-> asMailHeader(ofKind[i].addr)]

RECURSIVE JoinedLength(_)
JoinedLength(addrs) ==
    IF addrs = <<>> THEN 0
    ELSE Len(Head(addrs).lit) + (IF Len(addrs) > 1 THEN 2 ELSE 0) + JoinedLength(Tail(addrs))

RoleHeaders == {[kind |-> "ADDRESS_TO", prefix |-> "To: "], [kind |-> "ADDRESS_CC", prefix |-> "Cc: "]}

(* C20 as stated: the addresses of a role that fit a line of 78 columns    *)
(* when joined with ", " are all on the line the header begins with.       *)
C20_FoldedOnlyWhenTooLong ==
    op.name \in Renders =>
        \A h \in RoleHeaders :
            LET addrs == RoleAddresses(h.kind)
            IN (addrs # <<>> /\ Len(h.prefix) + JoinedLength(addrs) <= 78) =>
                  \E p \in {k \in 1..Len(HeaderOutput) : HeaderOutput[k] = T(h.prefix)} :
                     LET eol == CHOOSE k \in (p + 1)..Len(HeaderOutput) :
                                   /\ HeaderOutput[k] = CRLF
                                   /\ \A x \in (p + 1)..(k - 1) : HeaderOutput[x] # CRLF
                     IN \A i \in 1..Len(addrs) :
                           \E k \in (p + 1)..(eol - 1) : HeaderOutput[k] = addrs[i]

(* What is written for a role: the prefix, then every address but the last *)
(* followed by a comma, CRLF and a space, then the last address and CRLF.  *)
FoldedHeader(prefix, addrs) ==
    [i \in 1..(4 * Len(addrs) - 1) |->
        IF i = 1 THEN T(prefix)
        ELSE IF i = 4 * Len(addrs) - 1 THEN CRLF
        ELSE CASE (i - 2) % 4 = 0 -> addrs[(i - 2) \div 4 + 1]
               [] (i - 2) % 4 = 1 -> T(",")
               [] (i - 2) % 4 = 2 -> CRLF
               [] (i - 2) % 4 = 3 -> T(" ")]

(* C20: the To and the Cc header are written once each for a role with     *)
(* addresses and not at all for a role without; every address of the role  *)
(* but the last is followed by a comma, and every address but the first    *)
(* begins a continuation line of its own (CRLF and a space), whether or    *)
(* not the addresses would fit one line of 78 columns.                     *)
C20_OneAddressPerLine ==
    op.name \in Renders =>
        \A h \in RoleHeaders :
            LET addrs == RoleAddresses(h.kind)
                places == {k \in 1..Len(HeaderOutput) : HeaderOutput[k] = T(h.prefix)}
            IN IF addrs = <<>> THEN places = {}
               ELSE /\ Cardinality(places) = 1
                    /\ \A p \in places :
                          /\ HeaderOutput[p - 1] = CRLF
                          /\ SubSeq(HeaderOutput, p, p + 4 * Len(addrs) - 2)
                               = FoldedHeader(h.prefix, addrs)

C20_Witness ==
    /\ op.name = "asRawMessage"
    /\ RoleAddresses("ADDRESS_TO") = <<asMailHeader(AddrB), asMailHeader(AddrC)>>
    /\ RoleAddresses("ADDRESS_CC") = <<asMailHeader(AddrC)>>
    /\ Holds(HeaderOutput,
             <<T("To: "), asMailHeader(AddrB), T(","), CRLF, T(" "), asMailHeader(AddrC), CRLF,
               T("Cc: "), asMailHeader(AddrC), CRLF>>)

(* Where a header with this prefix begins in what was written. *)
HeaderPlaces(prefix) == {k \in 1..Len(HeaderOutput) : HeaderOutput[k] = T(prefix)}

(* The addresses of the header that begins at place p: what stands between *)
(* the prefix and the first CRLF that no continuation line follows, less   *)
(* the commas and the folds.                                               *)
AddressesAt(p) ==
    LET ends == {k \in (p + 1)..Len(HeaderOutput) :
                    /\ HeaderOutput[k] = CRLF
                    /\ (k = Len(HeaderOutput) \/ HeaderOutput[k + 1] # T(" "))}
        eoh == CHOOSE k \in ends : \A x \in ends : k <= x
    IN SelectSeq(SubSeq(HeaderOutput, p + 1, eoh - 1),
                 LAMBDA t : t \notin {T(","), T(" "), CRLF})

(* C21: what a serialization call writes holds at most one "To: " and at   *)
(* most one "Cc: " header, the To header before the Cc header; each lists  *)
(* the addresses the recipient list gives that role, in the order of the   *)
(* list, and a role without addresses has no header.                       *)
C21_RecipientGrouping ==
    op.name \in Renders =>
        /\ \A h \in RoleHeaders :
              /\ Cardinality(HeaderPlaces(h.prefix)) <= 1
              /\ (RoleAddresses(h.kind) = <<>>) <=> (HeaderPlaces(h.prefix) = {})
              /\ \A p \in HeaderPlaces(h.prefix) : AddressesAt(p) = RoleAddresses(h.kind)
        /\ \A p \in HeaderPlaces("To: ") : \A q \in HeaderPlaces("Cc: ") : p < q

C21_Witness ==
    /\ op.name = "asRawMessage"
    /\ Len(m_recipients) = 5
    /\ \E p \in HeaderPlaces("To: ") : \E q \in HeaderPlaces("Cc: ") :
          /\ p < q
          /\ AddressesAt(p) = <<asMailHeader(AddrB), asMailHeader(AddrA)>>
          /\ AddressesAt(q) = <<asMailHeader(AddrA)>>

(* The places of the fragments of one kind in a fragment list. *)
FragmentsOfKind(frags, kind) == {i \in 1..Len(frags) : frags[i].first = kind}

(* C24: the fragment list of a successful asCatenateData is not empty, it  *)
(* begins and ends with a text fragment, text and URL fragments alternate, *)
(* and there is one text fragment more than there are URL fragments.       *)
C24_FragmentsAlternate ==
    (op.name = "asCatenateData" /\ ret = "true") =>
        /\ catenate # <<>>
        /\ \A i \in 1..Len(catenate) : catenate[i].first \in {"CATENATE_TEXT", "CATENATE_URL"}
        /\ catenate[1].first = "CATENATE_TEXT"
        /\ catenate[Len(catenate)].first = "CATENATE_TEXT"
        /\ \A i \in 1..(Len(catenate) - 1) : catenate[i].first # catenate[i + 1].first
        /\ Cardinality(FragmentsOfKind(catenate, "CATENATE_TEXT"))
             = 1 + Cardinality(FragmentsOfKind(catenate, "CATENATE_URL"))

C24_Witness ==
    /\ op.name = "asCatenateData" /\ ret = "true"
    /\ Len(m_attachments) = 2
    /\ m_attachments[1].kind = ATTACHMENT_IMAP_MESSAGE
    /\ m_attachments[2].kind = ATTACHMENT_FILE
    /\ FragmentsOfKind(catenate, "CATENATE_URL") = {2}
    /\ FragmentsOfKind(catenate, "CATENATE_TEXT") = {1, 3}

(* Every attachment that is available locally has its rawData stream. *)
AvailableDataPresent ==
    \A i \in 1..Len(m_attachments) :
       isAvailableLocally(m_attachments[i]) => hasRawData(m_attachments[i])

(* C25: in every state of the composer where each attachment that is       *)
(* available locally has its rawData, asRawMessage returns true exactly    *)
(* when isReadyForSerialization returns true; and in every state where     *)
(* asRawMessage returns true, asCatenateData returns true.  What a         *)
(* serialization call has just returned is what it returns in the state    *)
(* it leaves.                                                              *)
C25_ReadinessPredictsRaw ==
    LET raw == asRawMessage(Composer).ok
        cat == asCatenateData(Composer).ok
    IN /\ AvailableDataPresent => (raw <=> isReadyForSerialization(m_attachments))
       /\ raw => cat
       /\ op.name = "asRawMessage" => (ret = "true" <=> raw)
       /\ op.name = "asCatenateData" => (ret = "true" <=> cat)

C25_Witness ==
    /\ op.name = "asRawMessage" /\ ret = "false"
    /\ Len(m_attachments) = 2
    /\ m_attachments[1].kind = ATTACHMENT_FILE
    /\ m_attachments[2].kind = ATTACHMENT_IMAP_MESSAGE
    /\ AvailableDataPresent
    /\ ~isReadyForSerialization(m_attachments)
    /\ asCatenateData(Composer).ok

----------------------------------------------------------------------------
(* Properties of writeHeaderWithMsgIds                                     *)

(* The tokens of each line of out, the CRLF left out. *)
RECURSIVE LinesOf(_, _)
LinesOf(out, cur) ==
    IF out = <<>> THEN (IF cur = <<>> THEN <<>> ELSE <<cur>>)
    ELSE IF Head(out) = CRLF THEN <<cur>> \o LinesOf(Tail(out), <<>>)
    ELSE LinesOf(Tail(out), Append(cur, Head(out)))

RECURSIVE LineLength(_)
LineLength(line) ==
    IF line = <<>> THEN 0 ELSE Len(Head(line).lit) + LineLength(Tail(line))

RECURSIVE WithoutCRLF(_)
WithoutCRLF(out) ==
    IF out = <<>> THEN <<>>
    ELSE (IF Head(out) = CRLF THEN <<>> ELSE <<Head(out)>>) \o WithoutCRLF(Tail(out))

WrittenIds == IF op.arg = "In-Reply-To" THEN m_inReplyTo ELSE m_references

(* The number of ids on line k: the first line begins with the name. *)
IdsOnLine(lines, k) == Len(lines[k]) - (IF k = 1 THEN 1 ELSE 0)

(* C10 as stated: no line of the header is longer than 78 characters. *)
C10_NoLineOver78 ==
    op.name = "writeHeaderWithMsgIds" =>
        \A k \in 1..Len(LinesOf(target, <<>>)) :
            LineLength(LinesOf(target, <<>>)[k]) <= WrapColumn

(* C10: nothing is written for an empty list; otherwise the name and a     *)
(* colon, then the ids in list order, each as " <id>", and a final CRLF;   *)
(* every line holds at least one id, a line that holds two or more ids is  *)
(* at most 78 characters long, and a line ends only where the next id      *)
(* would take it beyond 78 characters.                                     *)
C10_WrappedBetweenIds ==
    op.name = "writeHeaderWithMsgIds" =>
        LET ids == WrittenIds
            lines == LinesOf(target, <<>>)
        IN /\ ids = <<>> => target = <<>>
           /\ ids # <<>> =>
                /\ target[Len(target)] = CRLF
                /\ WithoutCRLF(target)
                     = <<T(op.arg \o ":")>> \o [i \in 1..Len(ids) |-> T(" <" \o ids[i] \o ">")]
                /\ \A k \in 1..Len(lines) :
                      /\ IdsOnLine(lines, k) >= 1
                      /\ IdsOnLine(lines, k) >= 2 => LineLength(lines[k]) <= WrapColumn
                      /\ k < Len(lines) =>
                            LineLength(lines[k]) + Len(lines[k + 1][1].lit) > WrapColumn

C10_Witness ==
    /\ op.name = "writeHeaderWithMsgIds"
    /\ Len(WrittenIds) = 3
    /\ LET lines == LinesOf(target, <<>>)
       IN /\ Len(lines) = 2
          /\ LineLength(lines[1]) > WrapColumn
          /\ IdsOnLine(lines, 2) = 2
          /\ LineLength(lines[2]) = WrapColumn

----------------------------------------------------------------------------
(* Properties of writeAttachmentBody                                       *)

BodyAttachment == m_attachments[op.arg[1] + 1]

(* C11: a Base64 body of L bytes goes out as one line per 57 bytes, the    *)
(* k-th line being the Base64 text of the k-th run of 57 bytes (the last   *)
(* run whatever is left), each line followed by CRLF and at most 76        *)
(* characters long; nothing is written for L = 0.                          *)
C11_Base64Lines ==
    (/\ op.name = "writeAttachmentBody" /\ ret = "true"
     /\ suggestedCTE(BodyAttachment) = "Base64") =>
        LET data == DataOf(BodyAttachment)
            L == Len(data)
            lines == LinesOf(target, <<>>)
        IN /\ L = 0 => target = <<>>
           /\ Len(lines) = (L + 56) \div 57
           /\ Len(target) = 2 * Len(lines)
           /\ \A k \in 1..Len(lines) :
                 LET last == IF 57 * k < L THEN 57 * k ELSE L
                 IN /\ target[2 * k] = CRLF
                    /\ lines[k] = <<T(toBase64(SubSeq(data, 57 * (k - 1) + 1, last)))>>
                    /\ Len(lines[k][1].lit) <= 76
                    /\ Len(lines[k][1].lit) = 4 * ((last - 57 * (k - 1) + 2) \div 3)

C11_Witness ==
    /\ op.name = "writeAttachmentBody" /\ ret = "true"
    /\ Len(DataOf(BodyAttachment)) = 119
    /\ LET lines == LinesOf(target, <<>>)
       IN /\ Len(lines) = 3
          /\ Len(lines[1][1].lit) = 76
          /\ Len(lines[3][1].lit) = 8

----------------------------------------------------------------------------
(* Properties of the notification of ComposerTextEdit, checked under       *)
(* FairTextEdit.                                                           *)

TimerPending == m_notificationTimer.active

(* The most recent call was a notify with a text and a timeout. *)
TimedNotify(call) == call.name = "notify" /\ call.arg.n # "" /\ call.arg.timeout # 0

NotifyCalls ==
    {SimpleCall("notify", [n |-> n, timeout |-> timeout, at |-> at]) :
        n \in Notifications \ {""}, timeout \in Timeouts \ {0}, at \in 0..MaxTime}

(* The timer is pending exactly when the most recent notify had a text and *)
(* a timeout and its timer has not fired since.                            *)
PendingIffTimedNotify == TimerPending <=> TimedNotify(op)

(* A timer that fires is the timer of the most recent notify, at or after  *)
(* the deadline that notify set, and it leaves no notification and no      *)
(* pending timer.                                                          *)
ExpiryClearsItsOwnNotification ==
    (op'.name = "resetNotification" /\ op' # op) =>
        /\ TimedNotify(op)
        /\ now >= op.arg.at + op.arg.timeout
        /\ m_notification' = ""
        /\ ~m_notificationTimer'.active

(* The notification changes by a notify, to the text of that notify, or by *)
(* the timer firing; after a notify with timeout 0 by a notify only.       *)
NotificationChangesByCall ==
    m_notification' # m_notification =>
        /\ op' # op
        /\ \/ op'.name = "notify" /\ m_notification' = op'.arg.n
           \/ op'.name = "resetNotification" /\ TimedNotify(op)

(* C27: the timer is pending exactly when the most recent notify had a     *)
(* text and a non-zero timeout and has not expired; a timer that expires   *)
(* is that of the most recent notify and empties the notification; a       *)
(* notification with timeout 0 stays until the next notify; and a          *)
(* notification with a timeout is eventually emptied or replaced by a      *)
(* later notify.                                                           *)
C27_NotificationTimer ==
    /\ []PendingIffTimedNotify
    /\ [][ExpiryClearsItsOwnNotification /\ NotificationChangesByCall]_vars
    /\ \A call \in NotifyCalls :
          (op = call) ~> (m_notification = "" \/ (op.name = "notify" /\ op # call))

C27_Witness ==
    /\ op.name = "resetNotification"
    /\ op.arg.at = 3
    /\ m_notification = ""
    /\ ~TimerPending

====
